---- MODULE Spec2Model ----
(***************************************************************************)
(* Model of the domain-readiness check of inboxlx:                         *)
(*   src/backend/api/check-domain.js  (handler, performAllChecks, the five *)
(*   resolvers, determineVerdict, generateRecommendations, the shared map) *)
(*                                                                         *)
(* Time is counted in seconds (the source counts milliseconds; every       *)
(* duration of the source is a whole number of seconds).  JavaScript       *)
(* strings that the code inspects are sequences of one-character strings.  *)
(* A JavaScript value that may be a number, null or undefined is a record  *)
(* with a tag field t.                                                     *)
(***************************************************************************)
EXTENDS Integers, Sequences, FiniteSets, TLC

(***************************************************************************)
(* JavaScript values                                                       *)
(***************************************************************************)
Null == [t |-> "null"]

Undefined == [t |-> "undefined"]

Num(n) == [t |-> "num", n |-> n]

\* o.f of a JavaScript object: undefined when the object has no such property
Get(o, f) == IF f \in DOMAIN o THEN o[f] ELSE Undefined

\* the truthiness of o.exists (a boolean when present)
Exists(o) == IF "exists" \in DOMAIN o THEN o.exists ELSE FALSE

\* the truthiness of a value that is a number, null or undefined (an object
\* is truthy, but every arithmetic comparison with it is false)
TruthyNum(v) == v.t = "num" /\ v.n # 0

Min(S) == CHOOSE x \in S : \A y \in S : x <= y

Max(S) == CHOOSE x \in S : \A y \in S : x >= y

(***************************************************************************)
(* Strings as sequences of characters                                      *)
(***************************************************************************)
Lower == {"a","b","c","d","e","f","g","h","i","j","k","l","m",
          "n","o","p","q","r","s","t","u","v","w","x","y","z"}

Upper == {"A","B","C","D","E","F","G","H","I","J","K","L","M",
          "N","O","P","Q","R","S","T","U","V","W","X","Y","Z"}

Digit == {"0","1","2","3","4","5","6","7","8","9"}

\* String.prototype.includes
Includes(s, sub) ==
  \E i \in 1..(Len(s) - Len(sub) + 1) :
     \A k \in 1..Len(sub) : s[i + k - 1] = sub[k]

DigitChar(d) == <<"0","1","2","3","4","5","6","7","8","9">>[d + 1]

RECURSIVE NatToDecimal(_)
NatToDecimal(n) ==
  IF n < 10 THEN <<DigitChar(n)>>
  ELSE NatToDecimal(n \div 10) \o <<DigitChar(n % 10)>>

\* the decimal text a template literal produces for an integer
ToDecimal(n) == IF n < 0 THEN <<"-">> \o NatToDecimal(-n) ELSE NatToDecimal(n)

(***************************************************************************)
(* handler: the domain pattern                                             *)
(*   /^([a-z0-9]+(-[a-z0-9]+)*\.)+[a-z]{2,}$/i                             *)
(***************************************************************************)
IsLetter(c) == c \in Lower \cup Upper

IsAlnum(c) == c \in Lower \cup Upper \cup Digit

\* s[i..j] matches [a-z0-9]+(-[a-z0-9]+)*
LabelMatches(s, i, j) ==
  /\ i <= j
  /\ \A k \in i..j : IsAlnum(s[k]) \/ s[k] = "-"
  /\ s[i] # "-"
  /\ s[j] # "-"
  /\ \A k \in i..(j - 1) : ~(s[k] = "-" /\ s[k + 1] = "-")

domainRegexTest(s) ==
  LET dots == {k \in 1..Len(s) : s[k] = "."}
  IN  /\ dots # {}
      /\ LET p == Max(dots)
         IN  /\ Len(s) - p >= 2
             /\ \A k \in (p + 1)..Len(s) : IsLetter(s[k])
      /\ \A k \in dots :
            LET before == {q \in dots : q < k}
                start  == IF before = {} THEN 1 ELSE Max(before) + 1
            IN  LabelMatches(s, start, k - 1)

(***************************************************************************)
(* identifyProvider                                                        *)
(***************************************************************************)
LowerOf(c) ==
  IF c \in Upper
  THEN CHOOSE l \in Lower :
         \E i \in 1..26 :
           /\ <<"A","B","C","D","E","F","G","H","I","J","K","L","M",
                "N","O","P","Q","R","S","T","U","V","W","X","Y","Z">>[i] = c
           /\ <<"a","b","c","d","e","f","g","h","i","j","k","l","m",
                "n","o","p","q","r","s","t","u","v","w","x","y","z">>[i] = l
  ELSE c

\* String.prototype.toLowerCase
toLowerCase(s) == [i \in 1..Len(s) |-> LowerOf(s[i])]

identifyProvider(exchange) ==
  LET hostname == toLowerCase(exchange)
      has(sub) == Includes(hostname, sub)
  IN  IF has(<<"g","o","o","g","l","e">>) \/ has(<<"g","m","a","i","l">>) THEN "Google Workspace"
      ELSE IF has(<<"o","u","t","l","o","o","k">>) \/ has(<<"o","f","f","i","c","e","3","6","5">>) \/ has(<<"m","i","c","r","o","s","o","f","t">>)
        THEN "Microsoft 365"
      ELSE IF has(<<"z","o","h","o">>) THEN "Zoho Mail"
      ELSE IF has(<<"y","a","h","o","o">>) THEN "Yahoo Mail"
      ELSE IF has(<<"a","m","a","z","o","n","a","w","s">>) \/ has(<<"a","m","a","z","o","n">>) THEN "Amazon SES"
      ELSE IF has(<<"s","e","n","d","g","r","i","d">>) \/ has(<<"s","g">>) THEN "SendGrid"
      ELSE IF has(<<"m","a","i","l","c","h","i","m","p">>) \/ has(<<"m","a","n","d","r","i","l","l">>) THEN "Mailchimp/Mandrill"
      ELSE IF has(<<"m","x">>) /\ has(<<"c","l","o","u","d","f","l","a","r","e">>) THEN "Cloudflare Email Routing"
      ELSE IF has(<<"p","r","o","t","o","n","m","a","i","l">>) \/ has(<<"p","m">>) THEN "ProtonMail"
      ELSE "Custom/Unknown"

(***************************************************************************)
(* Outcomes of a promise, as Promise.allSettled reports them               *)
(***************************************************************************)
Fulfilled(v) == [status |-> "fulfilled", value |-> v]

Rejected(e) == [status |-> "rejected", reason |-> e]

\* the Error a timeout(ms) promise rejects with: `Timeout after ${ms}ms`, no code
TimeoutError(sec) ==
  [message |-> <<"T","i","m","e","o","u","t"," ","a","f","t","e","r"," ">> \o ToDecimal(sec * 1000) \o <<"m","s">>,
   code    |-> ""]

\* an Error of the name service (dns module): a message naming the code, and the code
DnsError(c) ==
  [message |-> <<"q","u","e","r","y"," ">> \o (IF c = "ENOTFOUND" THEN <<"E","N","O","T","F","O","U","N","D">>
                         ELSE IF c = "ENODATA" THEN <<"E","N","O","D","A","T","A">>
                         ELSE <<"E","S","E","R","V","F","A","I","L">>),
   code    |-> c]

\* error.message.includes('Timeout')
MessageIncludesTimeout(error) == Includes(error.message, <<"T","i","m","e","o","u","t">>)

\* the catch blocks of checkMX, checkSPF and checkDMARC
NotFoundOrRethrow(error) ==
  IF error.code = "ENOTFOUND" \/ error.code = "ENODATA"
  THEN Fulfilled([exists |-> FALSE])
  ELSE Rejected(error)

(***************************************************************************)
(* checkMX, after the name service answered with records                   *)
(***************************************************************************)
\* variant: the records are left in the order of the answer
SortByPriorityKeep(records) == records

\* Array.prototype.sort((a, b) => a.priority - b.priority): stable
RECURSIVE SortByPriority(_)
SortByPriority(records) ==
  IF Len(records) <= 1 THEN records
  ELSE LET rest == SortByPriority(Tail(records))
           h    == Head(records)
           k    == Cardinality({i \in 1..Len(rest) : rest[i].priority < h.priority})
       IN  SubSeq(rest, 1, k) \o <<h>> \o SubSeq(rest, k + 1, Len(rest))

MxTop == 3

checkMXAnswer(records) ==
  IF Len(records) = 0
  THEN [exists |-> FALSE]
  ELSE LET sorted == SortByPriority(records)
       IN  [exists   |-> TRUE,
            records  |-> SubSeq(sorted, 1, Min({MxTop, Len(sorted)})),
            provider |-> identifyProvider(sorted[1].exchange)]

(***************************************************************************)
(* checkSPF, after the name service answered with TXT records.  A TXT      *)
(* answer is an array of records, each an array of segments.               *)
(***************************************************************************)
\* Array.prototype.flat(): the segments of all records, in order
RECURSIVE Flat(_)
Flat(records) ==
  IF Len(records) = 0 THEN <<>> ELSE Head(records) \o Flat(Tail(records))

IsSpf(record) == Includes(record, <<"v","=","s","p","f","1">>) \/ Includes(record, <<"v","=","s","p","f">>)

checkSPFAnswer(records) ==
  LET spfRecords == SelectSeq(Flat(records), IsSpf)
  IN  IF Len(spfRecords) = 0
      THEN [exists |-> FALSE]
      ELSE LET spfRecord   == spfRecords[1]
               hasHardFail == Includes(spfRecord, <<"-","a","l","l">>)
               hasSoftFail == Includes(spfRecord, <<"~","a","l","l">>)
               hasNeutral  == Includes(spfRecord, <<"?","a","l","l">>)
           IN  [exists   |-> TRUE,
                record   |-> spfRecord,
                valid    |-> Includes(spfRecord, <<"v","=","s","p","f","1">>),
                multiple |-> Len(spfRecords) > 1,
                policy   |-> IF hasHardFail THEN "hardfail"
                             ELSE IF hasSoftFail THEN "softfail"
                             ELSE IF hasNeutral THEN "neutral"
                             ELSE "none"]

(***************************************************************************)
(* Regular-expression pieces shared by checkDMARC, checkDKIM, checkWhois   *)
(***************************************************************************)
\* \s
Whitespace == {" ", "\t", "\n", "\r"}

\* s[i..] starts with sub
StartsAt(s, i, sub) ==
  /\ i >= 1
  /\ i + Len(sub) - 1 <= Len(s)
  /\ \A k \in 1..Len(sub) : s[i + k - 1] = sub[k]

\* the same under the i flag
StartsAtCI(s, i, sub) ==
  /\ i >= 1
  /\ i + Len(sub) - 1 <= Len(s)
  /\ \A k \in 1..Len(sub) : LowerOf(s[i + k - 1]) = LowerOf(sub[k])

\* the end (exclusive) of the longest run of characters of class C from i
RunEnd(s, i, C) ==
  Min({j \in i..(Len(s) + 1) : j = Len(s) + 1 \/ s[j] \notin C})

\* the characters a DMARC tag value may not hold: [^;\s]
TagStop == Whitespace \cup {";"}

\* record.match(/<tag>([^;\s]+)/): the capture, or <<>> when there is no match
MatchTag(record, tag) ==
  LET ok(i) == /\ StartsAt(record, i, tag)
               /\ i + Len(tag) <= Len(record)
               /\ record[i + Len(tag)] \notin TagStop
      starts == {i \in 1..Len(record) : ok(i)}
  IN  IF starts = {} THEN <<>>
      ELSE LET from == Min(starts) + Len(tag)
               to   == Min({j \in from..(Len(record) + 1) :
                              j = Len(record) + 1 \/ record[j] \in TagStop})
           IN  SubSeq(record, from, to - 1)

DigitValue(c) == CHOOSE d \in 0..9 : DigitChar(d) = c

RECURSIVE DecimalValue(_)
DecimalValue(digits) ==
  IF Len(digits) = 0 THEN 0
  ELSE 10 * DecimalValue(SubSeq(digits, 1, Len(digits) - 1))
       + DigitValue(digits[Len(digits)])

NaN == [t |-> "NaN"]

\* parseInt(str) of a string without leading white space: an optional sign and
\* the longest run of decimal digits; NaN when there is no digit
parseInt(str) ==
  LET signed == Len(str) > 0 /\ str[1] \in {"-", "+"}
      from   == IF signed THEN 2 ELSE 1
      to     == Min({j \in from..(Len(str) + 1) :
                       j = Len(str) + 1 \/ str[j] \notin Digit})
      value  == DecimalValue(SubSeq(str, from, to - 1))
  IN  IF to = from THEN NaN
      ELSE Num(IF signed /\ str[1] = "-" THEN -value ELSE value)

(***************************************************************************)
(* checkDMARC, after the name service answered with TXT records            *)
(***************************************************************************)
IsDmarc(record) == Includes(record, <<"v","=","D","M","A","R","C","1">>)

checkDMARCAnswer(records) ==
  LET dmarcRecords == SelectSeq(Flat(records), IsDmarc)
  IN  IF Len(dmarcRecords) = 0
      THEN [exists |-> FALSE]
      ELSE LET dmarcRecord          == dmarcRecords[1]
               policyMatch          == MatchTag(dmarcRecord, <<"p","=">>)
               subdomainPolicyMatch == MatchTag(dmarcRecord, <<"s","p","=">>)
               percentageMatch      == MatchTag(dmarcRecord, <<"p","c","t","=">>)
               ruaMatch             == MatchTag(dmarcRecord, <<"r","u","a","=">>)
           IN  [exists          |-> TRUE,
                record          |-> dmarcRecord,
                policy          |-> IF policyMatch # <<>> THEN policyMatch
                                    ELSE <<"n","o","n","e">>,
                subdomainPolicy |-> IF subdomainPolicyMatch # <<>>
                                    THEN [t |-> "str", s |-> subdomainPolicyMatch]
                                    ELSE Null,
                percentage      |-> IF percentageMatch # <<>>
                                    THEN parseInt(percentageMatch)
                                    ELSE Num(100),
                reporting       |-> IF ruaMatch # <<>>
                                    THEN [t |-> "str", s |-> ruaMatch]
                                    ELSE Null]

(***************************************************************************)
(* checkDKIM: one selector's TXT answer                                    *)
(***************************************************************************)
commonSelectors ==
  <<"google", "selector1", "selector2", "default", "dkim",
    "s1", "s2", "k1", "k2", "mx", "mail">>

IsDkim(record) == Includes(record, <<"v","=","D","K","I","M","1">>) \/ Includes(record, <<"k","=","r","s","a">>)

Base64Alphabet == Lower \cup Upper \cup Digit \cup {"+", "/"}

\* [A-Za-z0-9+/=\s]
KeyClass == Base64Alphabet \cup {"="} \cup Whitespace

\* record.match(/k=rsa;?\s*p=([A-Za-z0-9+/=\s]+)/i): the capture, or <<>>
MatchKey(record) ==
  LET afterSemi(i) == IF i + 5 <= Len(record) /\ record[i + 5] = ";"
                      THEN i + 6 ELSE i + 5
      pAt(i)       == RunEnd(record, afterSemi(i), Whitespace)
      ok(i)        == /\ StartsAtCI(record, i, <<"k","=","r","s","a">>)
                      /\ StartsAtCI(record, pAt(i), <<"p","=">>)
                      /\ pAt(i) + 2 <= Len(record)
                      /\ record[pAt(i) + 2] \in KeyClass
      starts       == {i \in 1..Len(record) : ok(i)}
  IN  IF starts = {} THEN <<>>
      ELSE LET from == pAt(Min(starts)) + 2
           IN  SubSeq(record, from, RunEnd(record, from, KeyClass) - 1)

IsNotWhitespace(c) == c \notin Whitespace

\* atob(data).length for data without white space (forgiving-base64 decode);
\* -1 when atob throws InvalidCharacterError
atobLength(data) ==
  LET n0     == Len(data)
      padded == IF n0 % 4 = 0 /\ n0 >= 2 /\ data[n0] = "=" /\ data[n0 - 1] = "="
                THEN 2
                ELSE IF n0 % 4 = 0 /\ n0 >= 1 /\ data[n0] = "=" THEN 1
                ELSE 0
      n      == n0 - padded
  IN  IF n % 4 = 1 THEN -1
      ELSE IF \E k \in 1..n : data[k] \notin Base64Alphabet THEN -1
      ELSE (n * 6) \div 8

\* lines 207-224: the result for this selector, [found |-> FALSE] when the
\* answer holds no DKIM record, [threw |-> TRUE] when atob throws
checkDKIMAnswer(selector, records) ==
  LET dkimRecords == SelectSeq(Flat(records), IsDkim)
  IN  IF Len(dkimRecords) = 0
      THEN [found |-> FALSE, threw |-> FALSE]
      ELSE LET record    == dkimRecords[1]
               keyMatch  == MatchKey(record)
               decoded   == atobLength(SelectSeq(keyMatch, IsNotWhitespace))
               keyLength == IF keyMatch # <<>> THEN decoded * 8 ELSE 0
           IN  IF keyMatch # <<>> /\ decoded < 0
               THEN [found |-> FALSE, threw |-> TRUE]
               ELSE [found |-> TRUE, threw |-> FALSE,
                     value |-> [exists      |-> TRUE,
                                selector    |-> selector,
                                record      |-> record,
                                keyLength   |-> keyLength,
                                keyStrength |-> IF keyLength >= 2048 THEN "strong"
                                                ELSE IF keyLength >= 1024 THEN "medium"
                                                ELSE "weak"]]

(***************************************************************************)
(* checkWhois: extraction of the creation date and the age                 *)
(***************************************************************************)
CACHE_TTL == 3600

SecondsPerDay == 86400

\* days from 1970-01-01 to the civil date y-m-d (proleptic Gregorian, y >= 1)
DaysFromCivil(y, m, d) ==
  LET yy  == IF m <= 2 THEN y - 1 ELSE y
      era == yy \div 400
      yoe == yy - era * 400
      mp  == IF m > 2 THEN m - 3 ELSE m + 9
      doy == (153 * mp + 2) \div 5 + d - 1
      doe == yoe * 365 + yoe \div 4 - yoe \div 100 + doy
  IN  era * 146097 + doe - 719468

\* the civil date <<y, m, d>> of a day number >= 0
CivilFromDays(z) ==
  LET zz  == z + 719468
      era == zz \div 146097
      doe == zz - era * 146097
      yoe == (doe - doe \div 1460 + doe \div 36524 - doe \div 146096) \div 365
      doy == doe - (365 * yoe + yoe \div 4 - yoe \div 100)
      mp  == (5 * doy + 2) \div 153
      d   == doy - (153 * mp + 2) \div 5 + 1
      m   == IF mp < 10 THEN mp + 3 ELSE mp - 9
      y   == yoe + era * 400 + (IF m <= 2 THEN 1 ELSE 0)
  IN  <<y, m, d>>

AllDigits(s, i, j) == j <= Len(s) /\ \A k \in i..j : s[k] \in Digit

\* \d{4}-\d{2}-\d{2} at position j
IsoDateAt(s, j) ==
  /\ j + 9 <= Len(s)
  /\ AllDigits(s, j, j + 3)
  /\ s[j + 4] = "-"
  /\ AllDigits(s, j + 5, j + 6)
  /\ s[j + 7] = "-"
  /\ AllDigits(s, j + 8, j + 9)

\* text.match(/<label>\s*(\d{4}-\d{2}-\d{2})/i): the capture, or <<>>
MatchLabelledDate(text, label) ==
  LET dateAt(i) == RunEnd(text, i + Len(label), Whitespace)
      ok(i)     == StartsAtCI(text, i, label) /\ IsoDateAt(text, dateAt(i))
      starts    == {i \in 1..Len(text) : ok(i)}
  IN  IF starts = {} THEN <<>>
      ELSE SubSeq(text, dateAt(Min(starts)), dateAt(Min(starts)) + 9)

\* \d{2}[-/]\d{2}[-/]\d{4} at position j
AltDateAt(s, j) ==
  /\ j + 9 <= Len(s)
  /\ AllDigits(s, j, j + 1)
  /\ s[j + 2] \in {"-", "/"}
  /\ AllDigits(s, j + 3, j + 4)
  /\ s[j + 5] \in {"-", "/"}
  /\ AllDigits(s, j + 6, j + 9)

\* text.match(/(\d{2}[-/]\d{2}[-/]\d{4})/), then .replace(/\//g, '-')
MatchAltDate(text) ==
  LET starts == {i \in 1..Len(text) : AltDateAt(text, i)}
  IN  IF starts = {} THEN <<>>
      ELSE LET found == SubSeq(text, Min(starts), Min(starts) + 9)
           IN  [k \in 1..10 |-> IF found[k] = "/" THEN "-" ELSE found[k]]

patterns ==
  <<<<"C","r","e","a","t","i","o","n"," ","D","a","t","e",":">>, <<"C","r","e","a","t","e","d"," ","O","n",":">>, <<"R","e","g","i","s","t","r","a","t","i","o","n"," ","D","a","t","e",":">>,
    <<"D","o","m","a","i","n"," ","C","r","e","a","t","e"," ","D","a","t","e",":">>>>

\* lines 295-318: the first pattern that matches decides; else the alternative
ExtractCreationDate(text) ==
  LET hits == {p \in 1..Len(patterns) : MatchLabelledDate(text, patterns[p]) # <<>>}
  IN  IF hits # {} THEN MatchLabelledDate(text, patterns[Min(hits)])
      ELSE MatchAltDate(text)

\* new Date(str).getTime() in seconds, NaN for an Invalid Date.
\* YYYY-MM-DD is read as UTC midnight, a day beyond the month's end rolls
\* over; NN-NN-YYYY is read by the engine's fallback parser as month-day-year.
DateGetTime(str) ==
  LET iso == IsoDateAt(str, 1)
      y   == DecimalValue(IF iso THEN SubSeq(str, 1, 4) ELSE SubSeq(str, 7, 10))
      m   == DecimalValue(IF iso THEN SubSeq(str, 6, 7) ELSE SubSeq(str, 1, 2))
      d   == DecimalValue(IF iso THEN SubSeq(str, 9, 10) ELSE SubSeq(str, 4, 5))
  IN  IF m \in 1..12 /\ d \in 1..31 /\ y >= 1
      THEN Num(DaysFromCivil(y, m, 1) * SecondsPerDay + (d - 1) * SecondsPerDay)
      ELSE NaN

RawDataLimit == 500

\* lines 294-332: the result built from the page text at time t
whoisResult(text, t) ==
  LET creationDate == ExtractCreationDate(text)
      created      == IF creationDate # <<>> THEN DateGetTime(creationDate) ELSE NaN
  IN  [creationDate |-> IF creationDate # <<>>
                        THEN [t |-> "str", s |-> creationDate] ELSE Null,
       ageInDays    |-> IF created.t = "num"
                        THEN Num((t - created.n) \div SecondsPerDay) ELSE Null,
       rawData      |-> SubSeq(text, 1, Min({RawDataLimit, Len(text)}))]

\* lines 341-347: the error marker checkWhois returns from its catch block
whoisErrorResult(error) ==
  [error   |-> "Could not retrieve WHOIS information",
   details |-> error.message]

(***************************************************************************)
(* determineVerdict                                                        *)
(***************************************************************************)
\* variant: a missing DKIM record does not block readiness
determineVerdictSkipDkim(checks) ==
  IF ~Exists(checks.mx) THEN "notready"
  ELSE IF ~Exists(checks.spf) THEN "notready"
  ELSE LET age == Get(checks.whois, "ageInDays")
       IN  IF TruthyNum(age) /\ age.n < 30 THEN "risky"
           ELSE "ready"

\* variant: an unknown age is treated like a young domain
determineVerdictUnknownRisky(checks) ==
  IF ~Exists(checks.mx) THEN "notready"
  ELSE IF ~Exists(checks.spf) \/ ~Exists(checks.dkim) THEN "notready"
  ELSE LET age == Get(checks.whois, "ageInDays")
       IN  IF ~TruthyNum(age) \/ age.n < 30 THEN "risky"
           ELSE "ready"

determineVerdict(checks) ==
  IF ~Exists(checks.mx) THEN "notready"
  ELSE IF ~Exists(checks.spf) \/ ~Exists(checks.dkim) THEN "notready"
  ELSE LET age == Get(checks.whois, "ageInDays")
       IN  IF TruthyNum(age) /\ age.n < 30 THEN "risky"
           ELSE "ready"

(***************************************************************************)
(* generateRecommendations.  A line is its text and, for the one line      *)
(* built by a template literal, the interpolated text (else <<>>).         *)
(***************************************************************************)
Line(text) == [text |-> text, n |-> <<>>]

AgeLine(days) ==
  [text |-> "Your domain is ${n} days old. Start with 20-30 emails per day for the first month to build reputation.",
   n    |-> ToDecimal(days)]

ReadyLine ==
  Line("Your domain is technically ready for cold email. Start with 20-30 emails per day and monitor bounce rates.")

RiskyLine ==
  Line("Your domain is at risk. Follow the recommendations above and start with less than 20 emails per day.")

NotReadyLine ==
  Line("Your domain is not ready for cold email. Fix the critical issues above before sending any emails.")

GeneralLine ==
  Line("Always warm up new domains/IPs for 2-4 weeks before full-scale campaigns.")

generateRecommendations(checks, verdict) ==
  LET mxPart ==
        IF ~Exists(checks.mx)
        THEN <<Line("Set up MX records to receive email. Without MX records, your domain cannot receive email.")>>
        ELSE <<>>
      spfPart ==
        IF ~Exists(checks.spf)
        THEN <<Line("Set up SPF record to prevent spoofing. This is required for deliverability. Format: v=spf1 include:_spf.your-provider.com ~all")>>
        ELSE IF checks.spf.multiple
        THEN <<Line("Multiple SPF records detected. This is invalid - consolidate all SPF mechanisms into a single record.")>>
        ELSE IF checks.spf.policy = "neutral" \/ checks.spf.policy = "none"
        THEN <<Line("Your SPF record uses a neutral policy (?all). Consider using ~all (softfail) or -all (hardfail) for better protection.")>>
        ELSE <<>>
      dkimPart ==
        IF ~Exists(checks.dkim)
        THEN <<Line("Set up DKIM record to prove emails are not altered in transit. Contact your email provider for DKIM setup instructions.")>>
        ELSE IF checks.dkim.keyStrength = "weak"
        THEN <<Line("Your DKIM key is weak (less than 1024 bits). Consider upgrading to at least 2048-bit RSA key.")>>
        ELSE <<>>
      dmarcPart ==
        IF ~Exists(checks.dmarc)
        THEN <<Line("Set up DMARC record to tell receivers how to handle failing emails. Start with p=none and add rua tag for reporting.")>>
        ELSE IF checks.dmarc.policy = <<"n","o","n","e">>
        THEN <<Line("Your DMARC policy is set to \"none\". Consider moving to p=quarantine after monitoring reports.")>>
        ELSE IF checks.dmarc.policy = <<"q","u","a","r","a","n","t","i","n","e">>
        THEN <<Line("Your DMARC policy is set to \"quarantine\". Good! Monitor reports and consider moving to p=reject.")>>
        ELSE <<>>
      age == Get(checks.whois, "ageInDays")
      agePart ==
        IF TruthyNum(age) /\ age.n < 30 THEN <<AgeLine(age.n)>> ELSE <<>>
      verdictPart ==
        IF verdict = "ready" THEN <<ReadyLine>>
        ELSE IF verdict = "risky" THEN <<RiskyLine>>
        ELSE <<NotReadyLine>>
  IN  mxPart \o spfPart \o dkimPart \o dmarcPart \o agePart \o verdictPart
      \o <<GeneralLine>>

(***************************************************************************)
(* performAllChecks: the aggregate built from the five settled outcomes    *)
(***************************************************************************)
Resolvers == {"mx", "spf", "dkim", "dmarc", "whois"}

\* x.status === 'fulfilled' ? x.value : { error: x.reason?.message || fallback }
FieldOf(outcome, fallback) ==
  IF outcome.status = "fulfilled" THEN outcome.value
  ELSE [error |-> IF Len(outcome.reason.message) > 0
                  THEN outcome.reason.message ELSE fallback]

\* variant: one rejected promise replaces every field (Promise.all)
performAllChecksFailFast(settled) ==
  IF \E r \in Resolvers : settled[r].status = "rejected"
  THEN LET failed == CHOOSE r \in Resolvers : settled[r].status = "rejected"
       IN  [r \in Resolvers |-> [error |-> settled[failed].reason.message]]
  ELSE [r \in Resolvers |-> settled[r].value]

performAllChecksResult(settled) ==
  [mx    |-> FieldOf(settled["mx"], <<"M","X"," ","c","h","e","c","k"," ","f","a","i","l","e","d">>),
   spf   |-> FieldOf(settled["spf"], <<"S","P","F"," ","c","h","e","c","k"," ","f","a","i","l","e","d">>),
   dkim  |-> FieldOf(settled["dkim"], <<"D","K","I","M"," ","c","h","e","c","k"," ","f","a","i","l","e","d">>),
   dmarc |-> FieldOf(settled["dmarc"], <<"D","M","A","R","C"," ","c","h","e","c","k"," ","f","a","i","l","e","d">>),
   whois |-> FieldOf(settled["whois"], <<"W","H","O","I","S"," ","c","h","e","c","k"," ","f","a","i","l","e","d">>)]

(***************************************************************************)
(* State                                                                   *)
(***************************************************************************)
VARIABLES
  now,         \* Date.now(), in seconds
  whoisCache,  \* the shared Map: key (a string) -> stored value
  pc,          \* where the handler of the current request stands:
               \*   "idle" (no request), "verify" (awaiting verifyLicenseKey),
               \*   "checks" (awaiting the Promise.race), "done" (returned)
  req,         \* the current request
  sent,        \* the responses sent for the current request, in order
  gTimer,      \* the timeout(15000) timer of the handler
  task,        \* per resolver: its promise and the timer its operation races
  plan,        \* per network operation in flight: what the network will do
  dkimIdx,     \* checkDKIM: index of the selector being probed (0: not started)
  whoisPhase,  \* checkWhois: "none", "cached", "fetch", "text", "done"
  log,         \* per record source: how its operations of this request behaved
  issued,      \* network operations issued for the current request, per kind
  admitted,    \* requests admitted to the checks so far
  supabase,    \* src/api: the usage row (of the user and the month) and the
               \*   subscription tier of the profile row
  apiReq,      \* src/api: per concurrent request, where its handler stands,
               \*   the counter it read and the response it sent
  calls        \* per concurrent call of checkWhois: where it stands, its
               \*   domain, its fetch and what it returned

vars ==
  <<now, whoisCache, pc, req, sent, gTimer, task, plan, dkimIdx, whoisPhase,
    log, issued, admitted, supabase, apiReq, calls>>

Str(s) == [t |-> "str", s |-> s]

\* the truthiness of a value that is a string or undefined
TruthyStr(v) == v.t = "str" /\ Len(v.s) > 0

(***************************************************************************)
(* The shared Map                                                          *)
(***************************************************************************)
\* Map.prototype.get
MapGet(map, key) == IF key \in DOMAIN map THEN map[key] ELSE Undefined

\* Map.prototype.set
MapSet(map, key, value) ==
  [k \in DOMAIN map \cup {key} |-> IF k = key THEN value ELSE map[k]]

WhoisKey(domain) == <<"w","h","o","i","s","_">> \o domain

FreeKey(clientIp) == <<"f","r","e","e","_">> \o clientIp

(***************************************************************************)
(* handler, lines 19-72: from the request to the first await               *)
(***************************************************************************)
FREE_WINDOW == 3600

GLOBAL_TIMEOUT == 15

Response(status, body) == [status |-> status, body |-> body]

ErrorBody(text) == [error |-> text]

\* variant: the catch block does not tell the timeout apart
handlerCatchGeneric(error) ==
  Response(500, ErrorBody("An error occurred while checking the domain"))

\* lines 92-105: the catch block of the handler
handlerCatch(error) ==
  IF MessageIncludesTimeout(error)
  THEN Response(408,
         ErrorBody("Request timeout. Some DNS servers may be slow to respond."))
  ELSE Response(500, ErrorBody("An error occurred while checking the domain"))

\* the TypeError thrown by `const { domain, licenseKey } = req.body` when
\* req.body is undefined
DestructureError ==
  [message |-> <<"C","a","n","n","o","t"," ","d","e","s","t","r","u","c","t","u","r","e"," ","p","r","o","p","e","r","t","y"," ","'","d","o","m","a","i","n","'"," ","o","f"," ","'","r","e","q",".","b","o","d","y","'"," ","a","s"," ","i","t"," ","i","s"," ","u","n","d","e","f","i","n","e","d",".">>,
   code    |-> ""]

\* String.prototype.trim() === ''
TrimIsEmpty(s) == \A k \in 1..Len(s) : s[k] \in Whitespace

\* variant: the request is admitted without the slot being set
freeTierNoSet(request, cache, t) ==
  LET lastCheck == MapGet(cache, FreeKey(request.ip))
  IN  IF TruthyNum(lastCheck) /\ t - lastCheck.n < FREE_WINDOW
      THEN [goto  |-> "respond", cache |-> cache,
            response |-> Response(429,
              ErrorBody("Free tier limit reached. Please subscribe for unlimited checks."))]
      ELSE [goto |-> "checks", cache |-> cache]

\* lines 59-71: the free-tier branch; the response, or admission with the slot set
freeTier(request, cache, t) ==
  LET cacheKey  == FreeKey(request.ip)
      lastCheck == MapGet(cache, cacheKey)
  IN  IF TruthyNum(lastCheck) /\ t - lastCheck.n < FREE_WINDOW
      THEN [goto  |-> "respond", cache |-> cache,
            response |-> Response(429,
              ErrorBody("Free tier limit reached. Please subscribe for unlimited checks."))]
      ELSE [goto |-> "checks", cache |-> MapSet(cache, cacheKey, Num(t))]

\* the handler up to its first await: what it sends or where it suspends, and
\* the Map it leaves
handlerEntry(request, cache, t) ==
  LET respond(status, body) ==
        [goto |-> "respond", cache |-> cache, response |-> Response(status, body)]
  IN  IF request.method = "OPTIONS" THEN respond(200, [end |-> TRUE])
      ELSE IF request.method # "POST"
        THEN respond(405, ErrorBody("Method not allowed"))
      ELSE IF ~request.hasBody
        THEN [goto |-> "respond", cache |-> cache,
              response |-> handlerCatch(DestructureError)]
      ELSE IF ~TruthyStr(request.domain)
        THEN respond(400, ErrorBody("Domain is required"))
      ELSE IF ~domainRegexTest(request.domain.s)
        THEN respond(400, ErrorBody("Invalid domain format"))
      ELSE IF TruthyStr(request.licenseKey)
        THEN IF TrimIsEmpty(request.licenseKey.s)
             THEN respond(403, ErrorBody("Invalid license key"))
             ELSE [goto |-> "verify", cache |-> cache]
      ELSE freeTier(request, cache, t)

(***************************************************************************)
(* The network: what an operation in flight will do.  An answer or an      *)
(* error arrives at once; an operation that hangs never completes.         *)
(***************************************************************************)
NoPlan == [k |-> "none"]

Hang == [k |-> "hang"]

Ans(records) == [k |-> "answer", records |-> records]

Err(code) == [k |-> "error", code |-> code]

\* a fetch that gets a response: its status, and what reading the body does
Resp(status, body) == [k |-> "response", status |-> status, body |-> body]

Body(text) == [k |-> "text", text |-> text]

Pad2(n) == IF n < 10 THEN <<"0">> \o ToDecimal(n) ELSE ToDecimal(n)

Pad4(n) ==
  IF n < 10 THEN <<"0","0","0">> \o ToDecimal(n)
  ELSE IF n < 100 THEN <<"0","0">> \o ToDecimal(n)
  ELSE IF n < 1000 THEN <<"0">> \o ToDecimal(n)
  ELSE ToDecimal(n)

\* the YYYY-MM-DD text of a day number
FormatISO(day) ==
  LET c == CivilFromDays(day)
  IN  Pad4(c[1]) \o <<"-">> \o Pad2(c[2]) \o <<"-">> \o Pad2(c[3])

\* a WHOIS page of a domain registered `age` days before the day of time t
PageCreated(age, t) ==
  <<"D","o","m","a","i","n"," ","N","a","m","e",":"," ","x"," ","C","r","e","a","t","i","o","n"," ","D","a","t","e",":"," ">> \o FormatISO(t \div SecondsPerDay - age)
    \o <<" ","R","e","g","i","s","t","r","a","r",":"," ","y">>

PageNoDate == <<"N","o"," ","m","a","t","c","h"," ","f","o","r"," ","d","o","m","a","i","n">>

\* how a record source behaved: "prompt" for an answer (a definitive "not
\* found" included), "bad" for a hang or a failure
PlanClass(p) ==
  IF p.k = "answer" THEN "prompt"
  ELSE IF p.k = "error" THEN
    (IF p.code \in {"ENOTFOUND", "ENODATA"} THEN "prompt" ELSE "bad")
  ELSE IF p.k = "response" THEN
    (IF p.status = 200 /\ p.body.k = "text" THEN "prompt" ELSE "bad")
  ELSE "bad"

LogJoin(old, new) ==
  IF old = "none" \/ old = new THEN new ELSE "mixed"

(***************************************************************************)
(* Answers the name service may give                                       *)
(***************************************************************************)
MxGood ==
  <<[exchange |-> <<"a","l","t",".","x",".","i","o">>, priority |-> 20],
    [exchange |-> <<"m","x",".","g","o","o","g","l","e",".","c","o","m">>, priority |-> 10]>>

SpfGood == << <<<<"v","=","s","p","f","1"," ","i","n","c","l","u","d","e",":","_","s","p","f",".","x",".","i","o"," ","-","a","l","l">>>> >>

TxtOther == << <<<<"s","i","t","e","-","v","e","r","i","f","i","c","a","t","i","o","n","=","a","b","c">>>> >>

\* a DKIM record with a 3-byte key
DkimGood == << <<<<"v","=","D","K","I","M","1",";"," ","k","=","r","s","a",";"," ","p","=","Q","U","J","D">>>> >>

DmarcNone == << <<<<"v","=","D","M","A","R","C","1",";"," ","p","=","n","o","n","e">>>> >>

DmarcQuarantine == << <<<<"v","=","D","M","A","R","C","1",";"," ","p","=","q","u","a","r","a","n","t","i","n","e",";"," ","p","c","t","=","5","0",";"," ","r","u","a","=","m","a","i","l","t","o",":","d","@","x",".","i","o">>>> >>

DmarcReject == << <<<<"v","=","D","M","A","R","C","1",";"," ","p","=","r","e","j","e","c","t">>>> >>

(***************************************************************************)
(* Requests and the bounded worlds the environment draws from              *)
(***************************************************************************)
StartNow == 1709251210

Horizon == 7200

MaxAdmitted == 2

FaultAdmitted == 1

PostRequest(domain, licenseKey, ip) ==
  [method |-> "POST", hasBody |-> TRUE, domain |-> domain,
   licenseKey |-> licenseKey, ip |-> ip]

\* requests that never reach the domain check: the preflight, a wrong method,
\* and a POST whose body was not parsed (req.body undefined)
OtherRequests ==
  {[method |-> m, hasBody |-> FALSE, domain |-> Undefined,
    licenseKey |-> Undefined, ip |-> <<"i","p","1">>] : m \in {"OPTIONS", "GET", "POST"}}

BadDomains == {Undefined, Str(<<>>), Str(<<"-","a",".","c","o">>), Str(<<"a",".","c">>), Str(<<"a","_","b",".","c","o">>)}

PageDescs == {[k |-> "created", age |-> a] : a \in {0, 1, 29, 30}}
               \cup {[k |-> "nodate"]}

\* the plan of a WHOIS fetch issued at time t
WhoisPlan(desc, t) ==
  IF desc.k = "created" THEN Resp(200, Body(PageCreated(desc.age, t)))
  ELSE IF desc.k = "nodate" THEN Resp(200, Body(PageNoDate))
  ELSE IF desc.k = "status" THEN Resp(desc.status, Hang)
  ELSE IF desc.k = "bodyerror" THEN Resp(200, Err("ECONNRESET"))
  ELSE IF desc.k = "bodyhang" THEN Resp(200, Hang)
  ELSE IF desc.k = "neterror" THEN Err("ECONNREFUSED")
  ELSE Hang

\* checkDKIM probes up to 11 selectors: in the worlds below the source treats
\* the next selector as it treated the last one, or answers it with a record
DkimNextOf(plans) == [p \in plans |-> {p, Ans(DkimGood)}]

\* one admitted request without a license key; each source answers, reports
\* "not found", fails or hangs
FaultWorld ==
  [requests |-> OtherRequests
                  \cup {PostRequest(d, Undefined, <<"i","p","1">>) :
                          d \in BadDomains \cup {Str(<<"a",".","c","o">>)}},
   mx       |-> {Ans(MxGood), Err("ENOTFOUND"), Err("ESERVFAIL"), Hang},
   spf      |-> {Ans(SpfGood), Err("ENODATA"), Err("ESERVFAIL"), Hang},
   dkim     |-> {Ans(DkimGood), Err("ENOTFOUND"), Err("ESERVFAIL"), Hang},
   dkimNext |-> DkimNextOf({Ans(DkimGood), Err("ENOTFOUND"), Err("ESERVFAIL"), Hang}),
   dmarc    |-> {Ans(DmarcReject), Err("ENOTFOUND"), Err("ESERVFAIL"), Hang},
   whois    |-> {[k |-> "created", age |-> 400], [k |-> "status", status |-> 503],
                 [k |-> "neterror"], [k |-> "hang"], [k |-> "bodyerror"],
                 [k |-> "bodyhang"]},
   license  |-> {},
   idle     |-> {0},
   maxAdmitted |-> FaultAdmitted]

(***************************************************************************)
(* Init                                                                    *)
(***************************************************************************)
NoRequest ==
  [method |-> "", hasBody |-> FALSE, domain |-> Undefined,
   licenseKey |-> Undefined, ip |-> <<>>]

Pending == [status |-> "pending"]

IdleTask == [st |-> "idle", deadline |-> 0, out |-> Pending]

NoNetwork == [dns |-> 0, fetch |-> 0, license |-> 0]

Operations == Resolvers \cup {"license"}

MaxApiRequests == 2

MaxCalls == 2

\* a free user without a usage row for the month; no request, no call
Init ==
  /\ now = StartNow
  /\ whoisCache = <<>>
  /\ pc = "idle"
  /\ req = NoRequest
  /\ sent = <<>>
  /\ gTimer = [on |-> FALSE, at |-> 0]
  /\ task = [r \in Resolvers |-> IdleTask]
  /\ plan = [o \in Operations |-> NoPlan]
  /\ dkimIdx = 0
  /\ whoisPhase = "none"
  /\ log = [r \in Resolvers |-> "none"]
  /\ issued = NoNetwork
  /\ admitted = 0
  /\ supabase = [usage |-> Null, tier |-> "free"]
  /\ apiReq = [i \in 1..MaxApiRequests |->
                 [pc |-> "idle", used |-> 0, status |-> 0, results |-> FALSE]]
  /\ calls = [c \in 1..MaxCalls |->
                [pc |-> "idle", domain |-> <<>>, plan |-> NoPlan, deadline |-> 0,
                 out |-> Pending]]

(***************************************************************************)
(* handler, lines 74-105: the race, the report, the catch block            *)
(***************************************************************************)
DNS_TIMEOUT == 5

DKIM_TIMEOUT == 3

WHOIS_TIMEOUT == 10

\* variant: the recommendations are built before the verdict is known
handlerSuccessStale(domain, checks) ==
  LET verdict         == determineVerdict(checks)
      recommendations == generateRecommendations(checks, "ready")
  IN  Response(200,
        [domain |-> domain, mx |-> checks.mx, spf |-> checks.spf,
         dkim |-> checks.dkim, dmarc |-> checks.dmarc, whois |-> checks.whois,
         verdict |-> verdict, recommendations |-> recommendations])

\* lines 80-90
handlerSuccess(domain, checks) ==
  LET verdict         == determineVerdict(checks)
      recommendations == generateRecommendations(checks, verdict)
  IN  Response(200,
        [domain |-> domain, mx |-> checks.mx, spf |-> checks.spf,
         dkim |-> checks.dkim, dmarc |-> checks.dmarc, whois |-> checks.whois,
         verdict |-> verdict, recommendations |-> recommendations])

\* lines 450-481
verifyLicenseKeyResult(p) ==
  IF p.k = "response" THEN (p.status = 200 /\ p.body.valid)
  ELSE TRUE

\* variant: an entry exactly one hour old still counts as fresh
checkWhoisCachedInclusive(domain, cache, t) ==
  LET cached == MapGet(cache, WhoisKey(domain))
  IN  IF cached.t = "obj" /\ t - cached.timestamp <= CACHE_TTL
      THEN [hit |-> TRUE, data |-> cached.data]
      ELSE [hit |-> FALSE]

\* lines 275-280: the fresh cached result, if there is one
checkWhoisCached(domain, cache, t) ==
  LET cached == MapGet(cache, WhoisKey(domain))
  IN  IF cached.t = "obj" /\ t - cached.timestamp < CACHE_TTL
      THEN [hit |-> TRUE, data |-> cached.data]
      ELSE [hit |-> FALSE]

AllSettled(tk) == \A r \in Resolvers : tk[r].st = "settled"

Awaiting(deadline) == [st |-> "await", deadline |-> deadline, out |-> Pending]

SettledTask(outcome) == [st |-> "settled", deadline |-> 0, out |-> outcome]

\* variant: the report is sent whenever the five promises are settled
CompleteAlways(tk) ==
  IF AllSettled(tk)
  THEN /\ pc' = "done"
       /\ sent' = Append(sent,
            handlerSuccess(req.domain.s,
              performAllChecksResult([r \in Resolvers |-> tk[r].out])))
  ELSE UNCHANGED <<pc, sent>>

\* performAllChecks returns once all five promises are settled; the handler,
\* if it still awaits the race, then sends the report
Complete(tk) ==
  IF pc = "checks" /\ AllSettled(tk)
  THEN /\ pc' = "done"
       /\ sent' = Append(sent,
            handlerSuccess(req.domain.s,
              performAllChecksResult([r \in Resolvers |-> tk[r].out])))
  ELSE UNCHANGED <<pc, sent>>

\* lines 74-78 and 108-115: the five resolvers start, each issuing its first
\* operation (checkWhois only on a cache miss), then the global timer starts
BeginChecks(request, cache, W) ==
  \E pm \in W.mx, ps \in W.spf, pk \in W.dkim, pd \in W.dmarc, dw \in W.whois :
    LET cached == checkWhoisCached(request.domain.s, cache, now)
        pw     == IF cached.hit THEN NoPlan ELSE WhoisPlan(dw, now)
    IN  /\ admitted < W.maxAdmitted
        /\ admitted' = admitted + 1
        /\ pc' = "checks"
        /\ whoisCache' = cache
        /\ task' = [r \in Resolvers |->
                      IF r = "dkim" THEN Awaiting(now + DKIM_TIMEOUT)
                      ELSE IF r = "whois"
                        THEN (IF cached.hit THEN SettledTask(Fulfilled(cached.data))
                              ELSE Awaiting(now + WHOIS_TIMEOUT))
                      ELSE Awaiting(now + DNS_TIMEOUT)]
        /\ plan' = [o \in Operations |->
                      IF o = "mx" THEN pm ELSE IF o = "spf" THEN ps
                      ELSE IF o = "dkim" THEN pk ELSE IF o = "dmarc" THEN pd
                      ELSE IF o = "whois" THEN pw ELSE NoPlan]
        /\ dkimIdx' = 1
        /\ whoisPhase' = IF cached.hit THEN "cached" ELSE "fetch"
        /\ log' = [r \in Resolvers |->
                     IF r = "mx" THEN PlanClass(pm) ELSE IF r = "spf" THEN PlanClass(ps)
                     ELSE IF r = "dkim" THEN PlanClass(pk)
                     ELSE IF r = "dmarc" THEN PlanClass(pd)
                     ELSE IF cached.hit THEN "none" ELSE PlanClass(pw)]
        /\ issued' = [issued EXCEPT !.dns = 4,
                                    !.fetch = IF cached.hit THEN 0 ELSE 1]
        /\ gTimer' = [on |-> TRUE, at |-> now + GLOBAL_TIMEOUT]
        /\ UNCHANGED <<now, sent>>

\* a request arrives and the handler runs to its first await or its response
Receive(W) ==
  /\ UNCHANGED <<supabase, apiReq, calls>>
  /\ pc = "idle"
  /\ \E request \in W.requests :
       LET e == handlerEntry(request, whoisCache, now)
       IN  /\ req' = request
           /\ \/ /\ e.goto = "respond"
                 /\ sent' = <<e.response>>
                 /\ pc' = "done"
                 /\ whoisCache' = e.cache
                 /\ UNCHANGED <<now, gTimer, task, plan, dkimIdx, whoisPhase,
                                log, issued, admitted>>
              \/ /\ e.goto = "verify"
                 /\ admitted < W.maxAdmitted
                 /\ pc' = "verify"
                 /\ \E p \in W.license : plan' = [plan EXCEPT !["license"] = p]
                 /\ issued' = [issued EXCEPT !.license = 1]
                 /\ whoisCache' = e.cache
                 /\ UNCHANGED <<now, sent, gTimer, task, dkimIdx, whoisPhase,
                                log, admitted>>
              \/ /\ e.goto = "checks"
                 /\ BeginChecks(request, e.cache, W)

\* lines 19-71: a further request arrives while the handler of the current one
\* is suspended; its handler runs on the shared Map up to its first await or
\* its response (what it does after that await is not followed)
ReceiveConcurrent(W) ==
  /\ UNCHANGED <<supabase, apiReq, calls>>
  /\ pc \in {"verify", "checks"}
  /\ \E request \in W.requests :
       whoisCache' = handlerEntry(request, whoisCache, now).cache
  /\ UNCHANGED <<now, pc, req, sent, gTimer, task, plan, dkimIdx, whoisPhase,
                 log, issued, admitted>>

\* lines 55-58: verifyLicenseKey returns
LicenseAnswer(W) ==
  /\ UNCHANGED <<supabase, apiReq, calls>>
  /\ pc = "verify"
  /\ IF verifyLicenseKeyResult(plan["license"])
     THEN /\ BeginChecks(req, whoisCache, W)
          /\ UNCHANGED req
     ELSE /\ sent' = Append(sent, Response(403, ErrorBody("Invalid license key")))
          /\ pc' = "done"
          /\ plan' = [plan EXCEPT !["license"] = NoPlan]
          /\ UNCHANGED <<now, whoisCache, req, gTimer, task, dkimIdx,
                         whoisPhase, log, issued, admitted>>

(***************************************************************************)
(* The resolvers' continuations                                            *)
(***************************************************************************)
Order == <<"mx", "spf", "dkim", "dmarc", "whois">>

\* the network has something to deliver to resolver r now
Deliverable(r) ==
  /\ task[r].st = "await"
  /\ plan[r].k \in {"answer", "error", "response", "text"}

\* what arrives at the same instant is delivered in the order it was asked for
Turn(r) ==
  /\ pc \in {"checks", "done"}
  /\ Deliverable(r)
  /\ \A i \in 1..Len(Order) :
       (\E j \in (i + 1)..Len(Order) : Order[j] = r) => ~Deliverable(Order[i])

\* the timer raced by the operation of resolver r fires; the operation hangs
TimerDue(r) ==
  /\ pc \in {"checks", "done"}
  /\ task[r].st = "await"
  /\ plan[r].k = "hang"
  /\ task[r].deadline > 0
  /\ now >= task[r].deadline

\* the promise of resolver r settles
Settle(r, outcome) ==
  LET tk == [task EXCEPT ![r] = SettledTask(outcome)]
  IN  /\ task' = tk
      /\ plan' = [plan EXCEPT ![r] = NoPlan]
      /\ Complete(tk)

resolverAnswer(r, records) ==
  IF r = "mx" THEN checkMXAnswer(records)
  ELSE IF r = "spf" THEN checkSPFAnswer(records)
  ELSE checkDMARCAnswer(records)

\* checkMX, checkSPF, checkDMARC: the name service answers or fails
DeliverDns(r) ==
  /\ UNCHANGED <<supabase, apiReq, calls>>
  /\ r \in {"mx", "spf", "dmarc"}
  /\ Turn(r)
  /\ Settle(r, IF plan[r].k = "answer"
               THEN Fulfilled(resolverAnswer(r, plan[r].records))
               ELSE NotFoundOrRethrow(DnsError(plan[r].code)))
  /\ UNCHANGED <<now, whoisCache, req, gTimer, dkimIdx, whoisPhase, log,
                 issued, admitted>>

\* checkMX, checkSPF, checkDMARC: timeout(5000) wins the race
DnsTimeout(r) ==
  /\ UNCHANGED <<supabase, apiReq, calls>>
  /\ r \in {"mx", "spf", "dmarc"}
  /\ TimerDue(r)
  /\ Settle(r, NotFoundOrRethrow(TimeoutError(DNS_TIMEOUT)))
  /\ UNCHANGED <<now, whoisCache, req, gTimer, dkimIdx, whoisPhase, log,
                 issued, admitted>>

\* checkDKIM, lines 199-231: this selector gave no result; the next one is
\* queried, or the list is exhausted
DkimContinue(W) ==
  IF dkimIdx = Len(commonSelectors)
  THEN /\ Settle("dkim", Fulfilled([exists |-> FALSE]))
       /\ UNCHANGED <<dkimIdx, log, issued>>
  ELSE /\ dkimIdx' = dkimIdx + 1
       /\ \E p \in W.dkimNext[plan["dkim"]] :
            /\ plan' = [plan EXCEPT !["dkim"] = p]
            /\ log' = [log EXCEPT !["dkim"] = LogJoin(@, PlanClass(p))]
       /\ task' = [task EXCEPT !["dkim"] = Awaiting(now + DKIM_TIMEOUT)]
       /\ issued' = [issued EXCEPT !.dns = @ + 1]
       /\ UNCHANGED <<pc, sent>>

\* checkDKIM: the name service answers or fails for the current selector
DeliverDkim(W) ==
  /\ UNCHANGED <<supabase, apiReq, calls>>
  /\ Turn("dkim")
  /\ LET res == IF plan["dkim"].k = "answer"
                THEN checkDKIMAnswer(commonSelectors[dkimIdx], plan["dkim"].records)
                ELSE [found |-> FALSE, threw |-> TRUE]
     IN  IF res.found
         THEN /\ Settle("dkim", Fulfilled(res.value))
              /\ UNCHANGED <<dkimIdx, log, issued>>
         ELSE DkimContinue(W)
  /\ UNCHANGED <<now, whoisCache, req, gTimer, whoisPhase, admitted>>

\* checkDKIM: timeout(3000) wins the race for the current selector
DkimTimeout(W) ==
  /\ UNCHANGED <<supabase, apiReq, calls>>
  /\ TimerDue("dkim")
  /\ DkimContinue(W)
  /\ UNCHANGED <<now, whoisCache, req, gTimer, whoisPhase, admitted>>

HttpError(status) ==
  [message |-> <<"W","H","O","I","S"," ","l","o","o","k","u","p"," ","f","a","i","l","e","d",":"," ">> \o ToDecimal(status), code |-> ""]

FetchError(c) == [message |-> <<"r","e","q","u","e","s","t"," ","f","a","i","l","e","d",","," ","r","e","a","s","o","n",":"," ">> \o <<"n","e","t","w","o","r","k">>, code |-> c]

\* checkWhois, lines 283-292: the fetch settles
DeliverWhoisFetch ==
  /\ UNCHANGED <<supabase, apiReq, calls>>
  /\ Turn("whois")
  /\ whoisPhase = "fetch"
  /\ LET p == plan["whois"]
     IN  IF p.k = "response" /\ p.status \in 200..299
         THEN /\ whoisPhase' = "text"
              /\ plan' = [plan EXCEPT !["whois"] = p.body]
              /\ task' = [task EXCEPT !["whois"] = Awaiting(0)]
              /\ UNCHANGED <<pc, sent>>
         ELSE /\ whoisPhase' = "done"
              /\ Settle("whois",
                   Fulfilled(whoisErrorResult(
                     IF p.k = "response" THEN HttpError(p.status)
                     ELSE FetchError(p.code))))
  /\ UNCHANGED <<now, whoisCache, req, gTimer, dkimIdx, log, issued, admitted>>

\* checkWhois: timeout(10000) wins the race against fetch
WhoisFetchTimeout ==
  /\ UNCHANGED <<supabase, apiReq, calls>>
  /\ TimerDue("whois")
  /\ whoisPhase = "fetch"
  /\ whoisPhase' = "done"
  /\ Settle("whois", Fulfilled(whoisErrorResult(TimeoutError(WHOIS_TIMEOUT))))
  /\ UNCHANGED <<now, whoisCache, req, gTimer, dkimIdx, log, issued, admitted>>

\* variant: the result of a failed body read is stored like that of a page
DeliverWhoisTextStoreAll ==
  /\ UNCHANGED <<supabase, apiReq, calls>>
  /\ Turn("whois")
  /\ whoisPhase = "text"
  /\ whoisPhase' = "done"
  /\ LET p == plan["whois"]
         result == IF p.k = "text" THEN whoisResult(p.text, now)
                   ELSE whoisErrorResult(FetchError(p.code))
     IN  /\ whoisCache' = MapSet(whoisCache, WhoisKey(req.domain.s),
                            [t |-> "obj", timestamp |-> now, data |-> result])
         /\ Settle("whois", Fulfilled(result))
  /\ UNCHANGED <<now, req, gTimer, dkimIdx, log, issued, admitted>>

\* checkWhois, lines 292-347: response.text() settles
DeliverWhoisText ==
  /\ UNCHANGED <<supabase, apiReq, calls>>
  /\ Turn("whois")
  /\ whoisPhase = "text"
  /\ whoisPhase' = "done"
  /\ LET p == plan["whois"]
     IN  IF p.k = "text"
         THEN LET result == whoisResult(p.text, now)
              IN  /\ whoisCache' = MapSet(whoisCache, WhoisKey(req.domain.s),
                                     [t |-> "obj", timestamp |-> now, data |-> result])
                  /\ Settle("whois", Fulfilled(result))
         ELSE /\ Settle("whois", Fulfilled(whoisErrorResult(FetchError(p.code))))
              /\ UNCHANGED whoisCache
  /\ UNCHANGED <<now, req, gTimer, dkimIdx, log, issued, admitted>>

(***************************************************************************)
(* Timers and time                                                         *)
(***************************************************************************)
\* the timeout(15000) of the handler fires
GlobalTimeout ==
  /\ UNCHANGED <<supabase, apiReq, calls>>
  /\ gTimer.on
  /\ now >= gTimer.at
  /\ gTimer' = [on |-> FALSE, at |-> 0]
  /\ IF pc = "checks"
     THEN /\ sent' = Append(sent, handlerCatch(TimeoutError(GLOBAL_TIMEOUT)))
          /\ pc' = "done"
     ELSE UNCHANGED <<sent, pc>>
  /\ UNCHANGED <<now, whoisCache, req, task, plan, dkimIdx, whoisPhase, log,
                 issued, admitted>>

PendingDeadlines ==
  {task[r].deadline : r \in {q \in Resolvers : task[q].st = "await"
                                               /\ task[q].deadline > 0}}
    \cup (IF gTimer.on THEN {gTimer.at} ELSE {})

\* nothing is deliverable and no timer is due: time passes until the next timer
AdvanceTime ==
  /\ UNCHANGED <<supabase, apiReq, calls>>
  /\ pc \in {"checks", "done"}
  /\ \A r \in Resolvers : ~Deliverable(r)
  /\ PendingDeadlines # {}
  /\ \A d \in PendingDeadlines : d > now
  /\ now' = Min(PendingDeadlines)
  /\ UNCHANGED <<whoisCache, pc, req, sent, gTimer, task, plan, dkimIdx,
                 whoisPhase, log, issued, admitted>>

\* the handler has returned and no resolver can make a step any more (at most
\* a body read hangs for ever); some time passes before the next request
Finish(W) ==
  /\ UNCHANGED <<supabase, apiReq, calls>>
  /\ pc = "done"
  /\ \A r \in Resolvers :
       task[r].st = "await" => (task[r].deadline = 0 /\ plan[r].k = "hang")
  /\ \E d \in W.idle :
       /\ now + d <= StartNow + Horizon
       /\ now' = now + d
  /\ pc' = "idle"
  /\ req' = NoRequest
  /\ sent' = <<>>
  /\ gTimer' = [on |-> FALSE, at |-> 0]
  /\ task' = [r \in Resolvers |-> IdleTask]
  /\ plan' = [o \in Operations |-> NoPlan]
  /\ dkimIdx' = 0
  /\ whoisPhase' = "none"
  /\ log' = [r \in Resolvers |-> "none"]
  /\ issued' = NoNetwork
  /\ UNCHANGED <<whoisCache, admitted>>

(***************************************************************************)
(* Specification: one admitted request, sources that answer, fail or hang  *)
(***************************************************************************)
Next ==
  \/ Receive(FaultWorld)
  \/ \E r \in {"mx", "spf", "dmarc"} : DeliverDns(r)
  \/ \E r \in {"mx", "spf", "dmarc"} : DnsTimeout(r)
  \/ DeliverDkim(FaultWorld)
  \/ DkimTimeout(FaultWorld)
  \/ DeliverWhoisFetch
  \/ WhoisFetchTimeout
  \/ DeliverWhoisText
  \/ GlobalTimeout
  \/ AdvanceTime
  \/ Finish(FaultWorld)

Spec == Init /\ [][Next]_vars

(***************************************************************************)
(* Specification: one admitted request, sources that answer at once with   *)
(* every kind of record set, page or failure                               *)
(***************************************************************************)
ValuesWorld ==
  [requests |-> {PostRequest(Str(<<"a",".","c","o">>), Undefined, <<"i","p","1">>)},
   mx       |-> {Ans(MxGood), Ans(<<>>), Err("ENOTFOUND"), Err("ESERVFAIL")},
   spf      |-> {Ans(SpfGood), Ans(TxtOther), Err("ENODATA"), Err("ESERVFAIL")},
   dkim     |-> {Ans(DkimGood), Ans(TxtOther), Err("ENOTFOUND")},
   dkimNext |-> DkimNextOf({Ans(DkimGood), Ans(TxtOther), Err("ENOTFOUND")}),
   dmarc    |-> {Ans(DmarcNone), Ans(DmarcQuarantine), Ans(DmarcReject),
                 Ans(TxtOther), Err("ENOTFOUND"), Err("ESERVFAIL")},
   whois    |-> PageDescs \cup {[k |-> "status", status |-> 503], [k |-> "neterror"]},
   license  |-> {},
   idle     |-> {0},
   maxAdmitted |-> FaultAdmitted]

NextValues ==
  \/ Receive(ValuesWorld)
  \/ \E r \in {"mx", "spf", "dmarc"} : DeliverDns(r)
  \/ DeliverDkim(ValuesWorld)
  \/ DeliverWhoisFetch
  \/ DeliverWhoisText
  \/ GlobalTimeout
  \/ AdvanceTime
  \/ Finish(ValuesWorld)

SpecValues == Init /\ [][NextValues]_vars

(***************************************************************************)
(* Specification: several requests, with and without a license key, from   *)
(* two clients, separated by idle periods around the one-hour windows      *)
(***************************************************************************)
GoodDomains == {Str(<<"a",".","c","o">>), Str(<<"b","-","1",".","i","o">>)}

LicensePlans ==
  {Resp(200, [valid |-> TRUE]), Resp(200, [valid |-> FALSE]),
   Resp(500, [valid |-> FALSE]), Err("ECONNREFUSED")}

QuotaWorld ==
  [requests |-> OtherRequests
                  \cup {PostRequest(d, Undefined, ip) :
                          d \in GoodDomains, ip \in {<<"i","p","1">>, <<"i","p","2">>}}
                  \cup {PostRequest(d, k, <<"i","p","1">>) :
                          d \in BadDomains, k \in {Undefined, Str(<<"K","E","Y">>)}}
                  \cup {PostRequest(Str(<<"a",".","c","o">>), k, <<"i","p","1">>) :
                          k \in {Str(<<>>), Str(<<" ">>), Str(<<"K","E","Y">>)}},
   mx       |-> {Ans(MxGood)},
   spf      |-> {Ans(SpfGood)},
   dkim     |-> {Ans(DkimGood)},
   dkimNext |-> DkimNextOf({Ans(DkimGood)}),
   dmarc    |-> {Ans(DmarcReject)},
   whois    |-> {[k |-> "created", age |-> 29], [k |-> "created", age |-> 400],
                 [k |-> "neterror"]},
   license  |-> LicensePlans,
   idle     |-> {0, CACHE_TTL - 1, CACHE_TTL},
   maxAdmitted |-> MaxAdmitted]

NextQuota ==
  \/ Receive(QuotaWorld)
  \/ LicenseAnswer(QuotaWorld)
  \/ \E r \in {"mx", "spf", "dmarc"} : DeliverDns(r)
  \/ DeliverDkim(QuotaWorld)
  \/ DeliverWhoisFetch
  \/ DeliverWhoisText
  \/ GlobalTimeout
  \/ AdvanceTime
  \/ Finish(QuotaWorld)

SpecQuota == Init /\ [][NextQuota]_vars

(***************************************************************************)
(* Specification: one admitted request whose DKIM source answers each      *)
(* selector query in any way: a record, other TXT data, a failure, nothing *)
(***************************************************************************)
\* a record whose key is split over two TXT segments, the first holding five
\* characters of it
DkimSplit == << <<<<"v","=","D","K","I","M","1",";"," ","k","=","r","s","a",";"," ","p","=","Q","U","J","D","R">>, <<"E","V","G">>>> >>

\* a record that carries the version tag only
DkimNoKey == << <<<<"v","=","D","K","I","M","1",";"," ","t","=","y">>>> >>

DkimWorld ==
  LET probe == {Ans(DkimGood), Ans(DkimSplit), Ans(DkimNoKey), Ans(TxtOther),
                Err("ENOTFOUND"), Err("ESERVFAIL"), Hang}
  IN
  [requests |-> {PostRequest(Str(<<"a",".","c","o">>), Undefined, <<"i","p","1">>)},
   mx       |-> {Ans(MxGood)},
   spf      |-> {Ans(SpfGood)},
   dkim     |-> probe,
   dkimNext |-> [p \in probe |-> probe],
   dmarc    |-> {Ans(DmarcReject)},
   whois    |-> {[k |-> "created", age |-> 400]},
   license  |-> {},
   idle     |-> {0},
   maxAdmitted |-> FaultAdmitted]

NextDkim ==
  \/ Receive(DkimWorld)
  \/ \E r \in {"mx", "spf", "dmarc"} : DeliverDns(r)
  \/ DeliverDkim(DkimWorld)
  \/ DkimTimeout(DkimWorld)
  \/ DeliverWhoisFetch
  \/ DeliverWhoisText
  \/ GlobalTimeout
  \/ AdvanceTime
  \/ Finish(DkimWorld)

SpecDkim == Init /\ [][NextDkim]_vars

(***************************************************************************)
(* Specification: one admitted request; the MX, SPF and DMARC answers and  *)
(* the WHOIS page range over record sets of every shape                    *)
(***************************************************************************)
\* four MX records, unsorted, two of them with the lowest priority value
MxFour ==
  <<[exchange |-> <<"d",".","i","o">>, priority |-> 30],
    [exchange |-> <<"a",".","O","u","t","l","o","o","k",".","c","o","m">>, priority |-> 10],
    [exchange |-> <<"b",".","i","o">>, priority |-> 10],
    [exchange |-> <<"c",".","i","o">>, priority |-> 20]>>

MxOne == <<[exchange |-> <<"m","x",".","z","o","h","o",".","e","u">>, priority |-> 5]>>

\* one SPF record in two segments, the qualifier in the second
SpfSplit == << <<<<"v","=","s","p","f","1"," ","a"," ">>, <<"-","a","l","l">>>> >>

\* two SPF records
SpfTwo == << <<<<"v","=","s","p","f","1"," ","a"," ","~","a","l","l">>>>, <<<<"v","=","s","p","f","1"," ","m","x"," ","-","a","l","l">>>> >>

\* the subdomain policy before the policy, and without one
DmarcSpFirst == << <<<<"v","=","D","M","A","R","C","1",";"," ","s","p","=","r","e","j","e","c","t",";"," ","p","=","n","o","n","e">>>> >>

DmarcSpOnly == << <<<<"v","=","D","M","A","R","C","1",";"," ","s","p","=","q","u","a","r","a","n","t","i","n","e">>>> >>

RecordsWorld ==
  [requests |-> {PostRequest(Str(<<"a",".","c","o">>), Undefined, <<"i","p","1">>)},
   mx       |-> {Ans(MxGood), Ans(MxFour), Ans(MxOne), Ans(<<>>),
                 Err("ENOTFOUND"), Err("ENODATA"), Err("ESERVFAIL"), Hang},
   spf      |-> {Ans(SpfGood), Ans(SpfSplit), Ans(SpfTwo), Ans(TxtOther)},
   dkim     |-> {Ans(DkimGood), Err("ENOTFOUND")},
   dkimNext |-> [p \in {Ans(DkimGood), Err("ENOTFOUND")} |-> {p}],
   dmarc    |-> {Ans(DmarcNone), Ans(DmarcQuarantine), Ans(DmarcReject),
                 Ans(DmarcSpFirst), Ans(DmarcSpOnly), Ans(TxtOther)},
   whois    |-> {[k |-> "created", age |-> a] : a \in {-1, 0, 5, 400}}
                  \cup {[k |-> "nodate"], [k |-> "neterror"]},
   license  |-> {},
   idle     |-> {0},
   maxAdmitted |-> FaultAdmitted]

NextRecords ==
  \/ Receive(RecordsWorld)
  \/ \E r \in {"mx", "spf", "dmarc"} : DeliverDns(r)
  \/ \E r \in {"mx", "spf", "dmarc"} : DnsTimeout(r)
  \/ DeliverDkim(RecordsWorld)
  \/ DeliverWhoisFetch
  \/ DeliverWhoisText
  \/ GlobalTimeout
  \/ AdvanceTime
  \/ Finish(RecordsWorld)

SpecRecords == Init /\ [][NextRecords]_vars

(***************************************************************************)
(* Specification: requests on every path of the handler (preflight, wrong  *)
(* method, no body, invalid domain, license key, free tier), with sources  *)
(* that answer or hang                                                     *)
(***************************************************************************)
PathsWorld ==
  [requests |-> OtherRequests
                  \cup {PostRequest(d, Undefined, <<"i","p","1">>) :
                          d \in {Undefined, Str(<<"a","_","b",".","c","o">>), Str(<<"a",".","c","o">>)}}
                  \cup {PostRequest(Str(<<"a",".","c","o">>), k, <<"i","p","1">>) :
                          k \in {Str(<<" ">>), Str(<<"K","E","Y">>)}},
   mx       |-> {Ans(MxGood), Hang},
   spf      |-> {Ans(SpfGood)},
   dkim     |-> {Ans(DkimGood), Hang},
   dkimNext |-> [p \in {Ans(DkimGood), Hang} |-> {p}],
   dmarc    |-> {Ans(DmarcReject)},
   whois    |-> {[k |-> "created", age |-> 400], [k |-> "bodyhang"]},
   license  |-> LicensePlans,
   idle     |-> {0},
   maxAdmitted |-> MaxAdmitted]

NextPaths ==
  \/ Receive(PathsWorld)
  \/ LicenseAnswer(PathsWorld)
  \/ \E r \in {"mx", "spf", "dmarc"} : DeliverDns(r)
  \/ \E r \in {"mx", "spf", "dmarc"} : DnsTimeout(r)
  \/ DeliverDkim(PathsWorld)
  \/ DkimTimeout(PathsWorld)
  \/ DeliverWhoisFetch
  \/ DeliverWhoisText
  \/ GlobalTimeout
  \/ AdvanceTime
  \/ Finish(PathsWorld)

SpecPaths == Init /\ [][NextPaths]_vars

(***************************************************************************)
(* Specification: two admitted requests for one domain from two clients,   *)
(* an hour or no time apart; the WHOIS source delivers a page, answers     *)
(* with an error status, fails, or hangs before or after the headers       *)
(***************************************************************************)
RetryWorld ==
  [requests |-> {PostRequest(Str(<<"a",".","c","o">>), Undefined, ip) :
                   ip \in {<<"i","p","1">>, <<"i","p","2">>}},
   mx       |-> {Ans(MxGood)},
   spf      |-> {Ans(SpfGood)},
   dkim     |-> {Ans(DkimGood)},
   dkimNext |-> DkimNextOf({Ans(DkimGood)}),
   dmarc    |-> {Ans(DmarcReject)},
   whois    |-> {[k |-> "created", age |-> 400], [k |-> "nodate"],
                 [k |-> "status", status |-> 503], [k |-> "neterror"],
                 [k |-> "hang"], [k |-> "bodyerror"], [k |-> "bodyhang"]},
   license  |-> {},
   idle     |-> {0, CACHE_TTL},
   maxAdmitted |-> MaxAdmitted]

NextRetry ==
  \/ Receive(RetryWorld)
  \/ \E r \in {"mx", "spf", "dmarc"} : DeliverDns(r)
  \/ DeliverDkim(RetryWorld)
  \/ DeliverWhoisFetch
  \/ WhoisFetchTimeout
  \/ DeliverWhoisText
  \/ GlobalTimeout
  \/ AdvanceTime
  \/ Finish(RetryWorld)

SpecRetry == Init /\ [][NextRetry]_vars

(***************************************************************************)
(* src/api/check-domain.js: the authenticated handler. Concurrent requests *)
(* of one user within one month; each await of the handler is a step, and  *)
(* each call of the database or of the auth service answers, answers with  *)
(* an error, or throws                                                     *)
(***************************************************************************)
\* lines 109-143: the request arrives; the handler runs to its first await
ApiReceive(i) ==
  /\ apiReq[i].pc = "idle"
  /\ \E kind \in {"OPTIONS", "GET", "nodomain", "noheader", "notoken", "post"} :
       apiReq' = [apiReq EXCEPT ![i] =
                    IF kind = "post" THEN [@ EXCEPT !.pc = "auth"]
                    ELSE [@ EXCEPT !.pc = "done",
                                   !.status = IF kind = "OPTIONS" THEN 200
                                              ELSE IF kind = "GET" THEN 405
                                              ELSE IF kind = "nodomain" THEN 400
                                              ELSE 401]]
  /\ UNCHANGED <<supabase, <<now, whoisCache, pc, req, sent, gTimer, task, plan, dkimIdx,
                 whoisPhase, log, issued, admitted, calls>>>>

\* lines 145-150 and 216-219: supabase.auth.getUser settles
ApiGetUser(i) ==
  /\ apiReq[i].pc = "auth"
  /\ \E outcome \in {"ok", "error", "throws"} :
       apiReq' = [apiReq EXCEPT ![i] =
                    IF outcome = "ok" THEN [@ EXCEPT !.pc = "usage"]
                    ELSE [@ EXCEPT !.pc = "done",
                                   !.status = IF outcome = "error" THEN 401 ELSE 500]]
  /\ UNCHANGED <<supabase, <<now, whoisCache, pc, req, sent, gTimer, task, plan, dkimIdx,
                 whoisPhase, log, issued, admitted, calls>>>>

\* lines 152-166: the select on usage settles; maybeSingle gives null when the
\* user has no row for the month
ApiSelectUsage(i) ==
  /\ apiReq[i].pc = "usage"
  /\ \E outcome \in {"ok", "error", "throws"} :
       apiReq' = [apiReq EXCEPT ![i] =
                    IF outcome = "ok"
                    THEN [@ EXCEPT !.pc = "profile",
                                   !.used = IF TruthyNum(supabase.usage)
                                            THEN supabase.usage.n ELSE 0]
                    ELSE [@ EXCEPT !.pc = "done", !.status = 500]]
  /\ UNCHANGED <<supabase, <<now, whoisCache, pc, req, sent, gTimer, task, plan, dkimIdx,
                 whoisPhase, log, issued, admitted, calls>>>>

\* lines 168-185: the select on profiles settles; the limit is checked
ApiSelectProfile(i) ==
  /\ apiReq[i].pc = "profile"
  /\ \E outcome \in {"ok", "error", "throws"} :
       LET tier == IF outcome = "ok" THEN supabase.tier ELSE "free"
       IN  apiReq' = [apiReq EXCEPT ![i] =
                        IF outcome = "throws"
                        THEN [@ EXCEPT !.pc = "done", !.status = 500]
                        ELSE IF tier # "pro" /\ apiReq[i].used >= 1
                        THEN [@ EXCEPT !.pc = "done", !.status = 403]
                        ELSE [@ EXCEPT !.pc = "checks"]]
  /\ UNCHANGED <<supabase, <<now, whoisCache, pc, req, sent, gTimer, task, plan, dkimIdx,
                 whoisPhase, log, issued, admitted, calls>>>>

\* lines 187-215: the five lookups have returned (none of them throws); the
\* upsert of the counter settles and the results are sent
ApiUpsert(i) ==
  /\ apiReq[i].pc = "checks"
  /\ \E outcome \in {"ok", "error", "throws"} :
       /\ supabase' = IF outcome = "ok"
                      THEN [supabase EXCEPT !.usage = Num(apiReq[i].used + 1)]
                      ELSE supabase
       /\ apiReq' = [apiReq EXCEPT ![i] =
                       IF outcome = "throws"
                       THEN [@ EXCEPT !.pc = "done", !.status = 500]
                       ELSE [@ EXCEPT !.pc = "done", !.status = 200,
                                      !.results = TRUE]]
  /\ UNCHANGED <<now, whoisCache, pc, req, sent, gTimer, task, plan, dkimIdx,
                 whoisPhase, log, issued, admitted, calls>>

NextApi ==
  \/ \E i \in 1..MaxApiRequests : ApiReceive(i)
  \/ \E i \in 1..MaxApiRequests : ApiGetUser(i)
  \/ \E i \in 1..MaxApiRequests : ApiSelectUsage(i)
  \/ \E i \in 1..MaxApiRequests : ApiSelectProfile(i)
  \/ \E i \in 1..MaxApiRequests : ApiUpsert(i)

SpecApi == Init /\ [][NextApi]_vars

(***************************************************************************)
(* Concurrent calls of checkWhois on the shared cache: each call runs from *)
(* one await to the next in one step, and the steps of the calls           *)
(* interleave. The page of a.co gives an age of 400 days, that of b-1.io   *)
(* one of 29 days                                                          *)
(***************************************************************************)
\* lines 273-286: the cache is consulted; on a miss the fetch is issued
WhoisCall(c) ==
  /\ calls[c].pc = "idle"
  /\ \E d \in GoodDomains :
     \E desc \in {[k |-> "created",
                   age |-> IF d.s = <<"a",".","c","o">> THEN 400 ELSE 29],
                  [k |-> "status", status |-> 503], [k |-> "neterror"],
                  [k |-> "hang"], [k |-> "bodyerror"]} :
       LET cached == checkWhoisCached(d.s, whoisCache, now)
       IN  calls' = [calls EXCEPT ![c] =
                       IF cached.hit
                       THEN [pc |-> "done", domain |-> d.s, plan |-> NoPlan,
                             deadline |-> 0, out |-> Fulfilled(cached.data)]
                       ELSE [pc |-> "fetch", domain |-> d.s,
                             plan |-> WhoisPlan(desc, now),
                             deadline |-> now + WHOIS_TIMEOUT, out |-> Pending]]
  /\ UNCHANGED <<now, whoisCache>>
  /\ UNCHANGED <<pc, req, sent, gTimer, task, plan, dkimIdx, whoisPhase, log,
                 issued, admitted, supabase, apiReq>>

\* lines 283-290 and 341-347: the race of the fetch and timeout(10000) settles
WhoisCallRace(c) ==
  /\ calls[c].pc = "fetch"
  /\ LET p == calls[c].plan
     IN  \/ /\ p.k = "response"
            /\ p.status \in 200..299
            /\ calls' = [calls EXCEPT ![c].pc = "text", ![c].plan = p.body]
         \/ /\ p.k = "response"
            /\ p.status \notin 200..299
            /\ calls' = [calls EXCEPT ![c].pc = "done",
                           ![c].out = Fulfilled(whoisErrorResult(HttpError(p.status)))]
         \/ /\ p.k = "error"
            /\ calls' = [calls EXCEPT ![c].pc = "done",
                           ![c].out = Fulfilled(whoisErrorResult(FetchError(p.code)))]
         \/ /\ p.k = "hang"
            /\ now >= calls[c].deadline
            /\ calls' = [calls EXCEPT ![c].pc = "done",
                           ![c].out = Fulfilled(whoisErrorResult(
                                                  TimeoutError(WHOIS_TIMEOUT)))]
  /\ UNCHANGED <<now, whoisCache>>
  /\ UNCHANGED <<pc, req, sent, gTimer, task, plan, dkimIdx, whoisPhase, log,
                 issued, admitted, supabase, apiReq>>

\* variant: the result is stored under a key that does not name the domain
WhoisCallTextOneKey(c) ==
  /\ calls[c].pc = "text"
  /\ LET p == calls[c].plan
     IN  IF p.k = "text"
         THEN LET result == whoisResult(p.text, now)
              IN  /\ whoisCache' = MapSet(whoisCache, WhoisKey(<<>>),
                                     [t |-> "obj", timestamp |-> now, data |-> result])
                  /\ calls' = [calls EXCEPT ![c].pc = "done",
                                            ![c].out = Fulfilled(result)]
         ELSE /\ calls' = [calls EXCEPT ![c].pc = "done",
                             ![c].out = Fulfilled(whoisErrorResult(FetchError(p.code)))]
              /\ UNCHANGED whoisCache
  /\ UNCHANGED now
  /\ UNCHANGED <<pc, req, sent, gTimer, task, plan, dkimIdx, whoisPhase, log,
                 issued, admitted, supabase, apiReq>>

\* lines 292-347: response.text() settles; the result is computed, stored and
\* returned
WhoisCallText(c) ==
  /\ calls[c].pc = "text"
  /\ LET p == calls[c].plan
     IN  IF p.k = "text"
         THEN LET result == whoisResult(p.text, now)
              IN  /\ whoisCache' = MapSet(whoisCache, WhoisKey(calls[c].domain),
                                     [t |-> "obj", timestamp |-> now, data |-> result])
                  /\ calls' = [calls EXCEPT ![c].pc = "done",
                                            ![c].out = Fulfilled(result)]
         ELSE /\ calls' = [calls EXCEPT ![c].pc = "done",
                             ![c].out = Fulfilled(whoisErrorResult(FetchError(p.code)))]
              /\ UNCHANGED whoisCache
  /\ UNCHANGED now
  /\ UNCHANGED <<pc, req, sent, gTimer, task, plan, dkimIdx, whoisPhase, log,
                 issued, admitted, supabase, apiReq>>

\* time passes: up to the timer of a hanging fetch, or for an hour
PassTime ==
  /\ \E d \in {WHOIS_TIMEOUT, CACHE_TTL} :
       /\ (d = WHOIS_TIMEOUT) =>
            \E c \in 1..MaxCalls : /\ calls[c].pc = "fetch"
                                   /\ calls[c].plan.k = "hang"
                                   /\ calls[c].deadline > now
       /\ now + d <= StartNow + Horizon
       /\ now' = now + d
  /\ UNCHANGED <<whoisCache, calls>>
  /\ UNCHANGED <<pc, req, sent, gTimer, task, plan, dkimIdx, whoisPhase, log,
                 issued, admitted, supabase, apiReq>>

NextCalls ==
  \/ \E c \in 1..MaxCalls : WhoisCall(c)
  \/ \E c \in 1..MaxCalls : WhoisCallRace(c)
  \/ \E c \in 1..MaxCalls : WhoisCallText(c)
  \/ PassTime

SpecCalls == Init /\ [][NextCalls]_vars

(***************************************************************************)
(* Specification: requests with and without a license key from two        *)
(* clients, one after the other (a second, an hour less a second or an     *)
(* hour apart) and at the same time; the WHOIS body arrives or hangs       *)
(***************************************************************************)
SlotWorld ==
  [requests |-> {PostRequest(Str(<<"a",".","c","o">>), Undefined, ip) :
                   ip \in {<<"i","p","1">>, <<"i","p","2">>}}
                  \cup {PostRequest(Str(<<"a",".","c","o">>), Str(<<"K","E","Y">>),
                                    <<"i","p","1">>)},
   mx       |-> {Ans(MxGood)},
   spf      |-> {Ans(SpfGood)},
   dkim     |-> {Ans(DkimGood)},
   dkimNext |-> DkimNextOf({Ans(DkimGood)}),
   dmarc    |-> {Ans(DmarcReject)},
   whois    |-> {[k |-> "created", age |-> 400], [k |-> "bodyhang"]},
   license  |-> {Resp(200, [valid |-> TRUE]), Resp(200, [valid |-> FALSE])},
   idle     |-> {0, FREE_WINDOW - 1, FREE_WINDOW},
   maxAdmitted |-> MaxAdmitted]

NextSlots ==
  \/ Receive(SlotWorld)
  \/ ReceiveConcurrent(SlotWorld)
  \/ LicenseAnswer(SlotWorld)
  \/ \E r \in {"mx", "spf", "dmarc"} : DeliverDns(r)
  \/ DeliverDkim(SlotWorld)
  \/ DeliverWhoisFetch
  \/ DeliverWhoisText
  \/ GlobalTimeout
  \/ AdvanceTime
  \/ Finish(SlotWorld)

SpecSlots == Init /\ [][NextSlots]_vars

(***************************************************************************)
(* Properties of the verdict and the recommendations (SpecValues)          *)
(***************************************************************************)
ReportFields ==
  {"domain", "mx", "spf", "dkim", "dmarc", "whois", "verdict", "recommendations"}

IsReport(r) == r.status = 200 /\ DOMAIN r.body = ReportFields

Reported == Len(sent) = 1 /\ IsReport(sent[1])

Report == sent[1].body

CoreExists == Exists(Report.mx) /\ Exists(Report.spf) /\ Exists(Report.dkim)

ReportedAge == Get(Report.whois, "ageInDays")

Recommends(line) ==
  \E i \in 1..Len(Report.recommendations) : Report.recommendations[i] = line

\* C1: when MX, SPF and DKIM exist and the WHOIS age is a known number of
\* days d with 0 <= d < 30, d = 0 included, the verdict is 'risky' and the
\* recommendations contain the warming-advice line stating d days
C1_YoungDomainIsRisky ==
  (Reported /\ CoreExists /\ ReportedAge.t = "num"
     /\ 0 <= ReportedAge.n /\ ReportedAge.n < 30)
  => (Report.verdict = "risky" /\ Recommends(AgeLine(ReportedAge.n)))

\* C2: the verdict is 'notready' whenever MX does not exist, and whenever SPF
\* or DKIM does not exist, whatever DMARC and WHOIS say; a field holding an
\* error placeholder counts as not existing
C2_MissingCoreIsNotReady ==
  (Reported /\ ~CoreExists) => Report.verdict = "notready"

\* MX exists, SPF is an error placeholder, DMARC exists, the age is known
C2_Witness ==
  /\ Reported
  /\ Exists(Report.mx)
  /\ "error" \in DOMAIN Report.spf
  /\ Exists(Report.dkim)
  /\ Exists(Report.dmarc)
  /\ ReportedAge.t = "num"
  /\ Report.verdict = "notready"

\* C3: when MX, SPF and DKIM exist and the WHOIS age is at least 30 days or
\* unknown (error marker, or a page without a recognizable date), the verdict
\* is 'ready', whatever the DMARC result is
C3_OldOrUnknownAgeIsReady ==
  (Reported /\ CoreExists /\ (ReportedAge.t # "num" \/ ReportedAge.n >= 30))
  => Report.verdict = "ready"

\* MX, SPF and DKIM exist, no DMARC record, a page without a date
C3_Witness ==
  /\ Reported
  /\ CoreExists
  /\ ~Exists(Report.dmarc)
  /\ "rawData" \in DOMAIN Report.whois
  /\ ReportedAge.t # "num"
  /\ Report.verdict = "ready"

(***************************************************************************)
(* Properties of the request under sources that fail or hang (Spec)        *)
(***************************************************************************)
\* the aggregate performAllChecks builds once every resolver has settled
Aggregate == performAllChecksResult([r \in Resolvers |-> task[r].out])

\* no resolver of the current request can make a step any more
Quiescent ==
  \A r \in Resolvers :
    \/ task[r].st = "settled"
    \/ task[r].st = "await" /\ task[r].deadline = 0 /\ plan[r].k = "hang"

\* source r hung or failed on every attempt of this request
Misbehaved(r) == log[r] = "bad"

\* source r answered every attempt at once (or was not asked: a cache hit)
AnsweredPromptly(r) == log[r] \in {"prompt", "none"}

\* C4: if exactly one record source hangs or fails on every attempt and the
\* other four answer promptly, the request ends with a complete report (all
\* five fields, verdict, recommendations), never with a request-level failure
C4_SingleSourceDegrades ==
  (/\ pc = "done"
   /\ admitted > 0
   /\ task["mx"].st # "idle"
   /\ Quiescent
   /\ \E r \in Resolvers :
        /\ Misbehaved(r)
        /\ \A q \in Resolvers \ {r} : AnsweredPromptly(q))
  => (Len(sent) >= 1 /\ IsReport(sent[1]))

\* the callback of the global timer runs
GlobalTimerFires == gTimer.on /\ ~gTimer'.on /\ pc' # "idle"

\* C5: when the global timer fires before performAllChecks has settled, the
\* one response is the 408 error and carries nothing but the error text,
\* however many resolvers had settled; when performAllChecks has settled, the
\* timer firing changes nothing that was sent
C5_GlobalTimeout ==
  [][GlobalTimerFires =>
       IF ~AllSettled(task)
       THEN /\ Len(sent') = 1
            /\ sent'[1].status = 408
            /\ DOMAIN sent'[1].body = {"error"}
       ELSE sent' = sent /\ Len(sent) = 1 /\ IsReport(sent[1])]_vars

\* the 408 was sent while some resolvers had settled and others had not
C5_Witness ==
  /\ Len(sent) = 1
  /\ sent[1].status = 408
  /\ \E r \in Resolvers : task[r].st = "settled"
  /\ \E r \in Resolvers : task[r].st = "await"

\* C6: whenever all five resolvers settle before the global timer fires, the
\* caller gets the report with all five fields, verdict and recommendations;
\* each field is its own resolver's value, or an error placeholder when that
\* resolver's promise was rejected, whatever the other four did
C6_BestEffortReport ==
  (AllSettled(task) /\ (Len(sent) = 0 \/ sent[1].status # 408))
  => /\ Len(sent) = 1
     /\ IsReport(sent[1])
     /\ \A r \in Resolvers :
          sent[1].body[r] =
            IF task[r].out.status = "fulfilled" THEN task[r].out.value
            ELSE [error |-> task[r].out.reason.message]

\* a report in which one field is an error placeholder and another a value
C6_Witness ==
  /\ Len(sent) = 1
  /\ IsReport(sent[1])
  /\ \E r \in Resolvers : task[r].out.status = "rejected"
  /\ \E r \in Resolvers : task[r].out.status = "fulfilled" /\ Exists(task[r].out.value)

\* C7: a resolver whose source timed out or failed on every attempt shows an
\* error placeholder in its field, never the exists:false of a definitive
\* "not found"
C7_FailureIsPlaceholder ==
  \A r \in Resolvers :
    (AllSettled(task) /\ Misbehaved(r)) => "error" \in DOMAIN Aggregate[r]

(***************************************************************************)
(* Properties of validation, the WHOIS cache and the free tier (SpecQuota) *)
(***************************************************************************)
\* the handler starts on a POST request
Arrives == pc = "idle" /\ pc' # "idle" /\ req'.method = "POST"

\* the request carries no domain, or one the pattern does not match
InvalidDomain(request) ==
  \/ ~request.hasBody
  \/ ~TruthyStr(request.domain)
  \/ ~domainRegexTest(request.domain.s)

\* C8: a request whose domain is missing or does not match the pattern gets
\* the 400 response before any name-service query, WHOIS fetch or license
\* call is issued, and the shared map stays as it was
C8_InvalidDomainRejected ==
  [][(Arrives /\ InvalidDomain(req'))
       => /\ Len(sent') = 1
          /\ sent'[1].status = 400
          /\ pc' = "done"
          /\ issued' = NoNetwork
          /\ whoisCache' = whoisCache]_vars

\* checkWhois starts: the five resolvers are started
ChecksBegin == pc \in {"idle", "verify"} /\ pc' = "checks"

Fresh(entry, t) == entry.t = "obj" /\ t - entry.timestamp < 3600

\* C9: checkWhois returns exactly the cached result, without a fetch, when the
\* entry of the domain is younger than one hour; otherwise it fetches, and a
\* successful fetch stores the new result with the current time
C9_WhoisCache ==
  [][/\ ChecksBegin =>
          LET entry == MapGet(whoisCache, WhoisKey(req'.domain.s))
          IN  IF Fresh(entry, now)
              THEN /\ task'["whois"] = SettledTask(Fulfilled(entry.data))
                   /\ issued'.fetch = 0
                   /\ MapGet(whoisCache', WhoisKey(req'.domain.s)) = entry
              ELSE /\ task'["whois"].st = "await"
                   /\ issued'.fetch = 1
     /\ (whoisPhase = "text" /\ task'["whois"].out.status = "fulfilled"
           /\ "error" \notin DOMAIN task'["whois"].out.value)
          => MapGet(whoisCache', WhoisKey(req.domain.s)) =
               [t |-> "obj", timestamp |-> now, data |-> task'["whois"].out.value]]_vars

\* a hit one second before the entry turns one hour old
C9_Witness ==
  /\ whoisPhase = "cached"
  /\ pc = "done"
  /\ LET entry == MapGet(whoisCache, WhoisKey(req.domain.s))
     IN  /\ now - entry.timestamp = 3599
         /\ Reported
         /\ Report.whois = entry.data

\* C10: once a request without a license key from a client was admitted,
\* every further request without a license key from that client in the
\* following 24 hours gets the limit-reached response and starts no lookup
C10_OneFreeCheckPerDay ==
  [][(/\ Arrives
      /\ ~InvalidDomain(req')
      /\ ~TruthyStr(req'.licenseKey)
      /\ LET slot == MapGet(whoisCache, FreeKey(req'.ip))
         IN  slot.t = "num" /\ now - slot.n < 24 * 3600)
       => /\ Len(sent') = 1
          /\ sent'[1].status = 429
          /\ issued' = NoNetwork]_vars

(***************************************************************************)
(* Properties of the recommendation list (SpecValues)                      *)
(***************************************************************************)
MxTexts ==
  {"Set up MX records to receive email. Without MX records, your domain cannot receive email."}

SpfTexts ==
  {"Set up SPF record to prevent spoofing. This is required for deliverability. Format: v=spf1 include:_spf.your-provider.com ~all",
   "Multiple SPF records detected. This is invalid - consolidate all SPF mechanisms into a single record.",
   "Your SPF record uses a neutral policy (?all). Consider using ~all (softfail) or -all (hardfail) for better protection."}

DkimTexts ==
  {"Set up DKIM record to prove emails are not altered in transit. Contact your email provider for DKIM setup instructions.",
   "Your DKIM key is weak (less than 1024 bits). Consider upgrading to at least 2048-bit RSA key."}

DmarcTexts ==
  {"Set up DMARC record to tell receivers how to handle failing emails. Start with p=none and add rua tag for reporting.",
   "Your DMARC policy is set to \"none\". Consider moving to p=quarantine after monitoring reports.",
   "Your DMARC policy is set to \"quarantine\". Good! Monitor reports and consider moving to p=reject."}

\* the record type a line speaks about: 1 MX, 2 SPF, 3 DKIM, 4 DMARC,
\* 5 domain age; 0 for any other line
Rank(line) ==
  IF line.n # <<>> THEN 5
  ELSE IF line.text \in MxTexts THEN 1
  ELSE IF line.text \in SpfTexts THEN 2
  ELSE IF line.text \in DkimTexts THEN 3
  ELSE IF line.text \in DmarcTexts THEN 4
  ELSE 0

ClosingText(verdict) ==
  IF verdict = "ready"
  THEN "Your domain is technically ready for cold email. Start with 20-30 emails per day and monitor bounce rates."
  ELSE IF verdict = "risky"
  THEN "Your domain is at risk. Follow the recommendations above and start with less than 20 emails per day."
  ELSE "Your domain is not ready for cold email. Fix the critical issues above before sending any emails."

\* C11: the recommendation list ends with the general best-practice line,
\* preceded by the one closing line of the verdict; the lines before them
\* speak about MX, SPF, DKIM, DMARC and the domain age in this order, at most
\* one line each
C11_RecommendationOrder ==
  Reported =>
    LET R == Report.recommendations
        n == Len(R)
    IN  /\ n >= 2
        /\ R[n].text = "Always warm up new domains/IPs for 2-4 weeks before full-scale campaigns."
        /\ R[n].n = <<>>
        /\ R[n - 1].text = ClosingText(Report.verdict)
        /\ R[n - 1].n = <<>>
        /\ \A i \in 1..(n - 2) : Rank(R[i]) \in 1..5
        /\ \A i, j \in 1..(n - 2) : i < j => Rank(R[i]) < Rank(R[j])

\* a list with a DMARC line and the age line before the closing line of 'risky'
C11_Witness ==
  /\ Reported
  /\ Report.verdict = "risky"
  /\ LET R == Report.recommendations
     IN  /\ Len(R) >= 4
         /\ Rank(R[Len(R) - 2]) = 5
         /\ Rank(R[Len(R) - 3]) = 4

(***************************************************************************)
(* Properties of the DKIM probe (SpecDkim)                                 *)
(***************************************************************************)
\* checkDKIM resumes: the query of the current selector came back or timed out
DkimStep ==
  /\ task["dkim"].st = "await"
  /\ pc' # "idle"
  /\ (task'["dkim"] # task["dkim"] \/ dkimIdx' # dkimIdx)

\* the TXT answer contains 'v=DKIM1' or 'k=rsa'
HasSignature(records) ==
  \E i \in 1..Len(records) : \E j \in 1..Len(records[i]) : IsDkim(records[i][j])

\* C12: the selectors are probed one at a time in the listed order; the first
\* selector whose TXT answer contains 'v=DKIM1' or 'k=rsa' is the one
\* returned, whatever its key material, and nothing is queried after it; a
\* failed or timed-out query moves on to the next selector; exists:false is
\* returned only after the 11th selector gave no match
C12_DkimProbeOrder ==
  [][DkimStep =>
       IF plan["dkim"].k = "answer" /\ HasSignature(plan["dkim"].records)
       THEN /\ task'["dkim"].st = "settled"
            /\ task'["dkim"].out.status = "fulfilled"
            /\ Exists(task'["dkim"].out.value)
            /\ task'["dkim"].out.value.selector = commonSelectors[dkimIdx]
            /\ dkimIdx' = dkimIdx
            /\ issued'.dns = issued.dns
       ELSE IF dkimIdx < 11
       THEN /\ task'["dkim"].st = "await"
            /\ dkimIdx' = dkimIdx + 1
            /\ issued'.dns = issued.dns + 1
       ELSE task'["dkim"] = SettledTask(Fulfilled([exists |-> FALSE]))]_vars

(***************************************************************************)
(* Properties of checkMX, checkSPF, checkDMARC and the age (SpecRecords)   *)
(***************************************************************************)
\* the promise of resolver r settles in this step
Settles(r) == task[r].st = "await" /\ task'[r].st = "settled"

\* res holds the (at most) three records of lowest priority value of the
\* answer, in ascending order of priority
LowestThree(answer, res) ==
  /\ Len(res) = Min({3, Len(answer)})
  /\ \A i, j \in 1..Len(res) : i < j => res[i].priority <= res[j].priority
  /\ \E f \in [1..Len(res) -> 1..Len(answer)] :
       /\ \A i, j \in 1..Len(res) : i # j => f[i] # f[j]
       /\ \A i \in 1..Len(res) : answer[f[i]] = res[i]
       /\ \A k \in 1..Len(answer) :
            (\A i \in 1..Len(res) : f[i] # k)
              => answer[k].priority >= res[Len(res)].priority

\* C13: for a non-empty MX answer checkMX returns exists:true, the (at most)
\* three records of lowest priority value in ascending order, and the
\* provider of the first of them; for an empty answer, ENOTFOUND or ENODATA
\* it returns exists:false; for any other failure, its 5-second timeout
\* included, it rejects
C13_CheckMX ==
  [][Settles("mx") =>
       LET p   == plan["mx"]
           out == task'["mx"].out
       IN  IF p.k = "answer" /\ Len(p.records) > 0
           THEN /\ out.status = "fulfilled"
                /\ out.value.exists
                /\ LowestThree(p.records, out.value.records)
                /\ out.value.provider = identifyProvider(out.value.records[1].exchange)
           ELSE IF p.k = "answer" \/ (p.k = "error" /\ p.code \in {"ENOTFOUND", "ENODATA"})
           THEN out = Fulfilled([exists |-> FALSE])
           ELSE /\ out.status = "rejected"
                /\ (p.k = "hang" => now = (gTimer.at - GLOBAL_TIMEOUT) + 5)]_vars

\* four records were answered; three are returned, the two of priority 10
\* first, and the provider is that of the first
C13_Witness ==
  /\ task["mx"].st = "settled"
  /\ task["mx"].out.status = "fulfilled"
  /\ Exists(task["mx"].out.value)
  /\ Len(task["mx"].out.value.records) = 3
  /\ task["mx"].out.value.records[2].priority = 10
  /\ task["mx"].out.value.records[3].priority = 20
  /\ task["mx"].out.value.provider = "Microsoft 365"

\* the segments of one TXT answer joined into one string
JoinSegments(answer) == Flat(answer)

\* the TXT answers, each joined, that carry the SPF signature
SpfCandidates(records) ==
  SelectSeq([i \in 1..Len(records) |-> JoinSegments(records[i])], IsSpf)

PolicyOf(record) ==
  IF Includes(record, <<"-","a","l","l">>) THEN "hardfail"
  ELSE IF Includes(record, <<"~","a","l","l">>) THEN "softfail"
  ELSE IF Includes(record, <<"?","a","l","l">>) THEN "neutral"
  ELSE "none"

\* C14: checkSPF takes each TXT answer, its segments joined, as one candidate:
\* multiple is true exactly when more than one answer carries the SPF
\* signature, the first such answer is the record, and the policy is derived
\* from that whole record ('-all', else '~all', else '?all', else none); a
\* report whose SPF result has multiple = true recommends the consolidation
C14_CheckSPF ==
  [][/\ (Settles("spf") /\ plan["spf"].k = "answer") =>
          LET candidates == SpfCandidates(plan["spf"].records)
              out        == task'["spf"].out
          IN  /\ out.status = "fulfilled"
              /\ Exists(out.value) <=> Len(candidates) > 0
              /\ Len(candidates) > 0 =>
                   /\ out.value.multiple <=> Len(candidates) > 1
                   /\ out.value.record = candidates[1]
                   /\ out.value.policy = PolicyOf(candidates[1])
     /\ (Reported /\ Exists(Report.spf) /\ Report.spf.multiple) =>
          Recommends(Line("Multiple SPF records detected. This is invalid - consolidate all SPF mechanisms into a single record."))]_vars

\* the value of the tag named `name` of a tag list "a=x; b=y": the text after
\* "name=" up to the next ';' or white space, where the name starts the
\* record or follows a ';' or white space; <<>> when there is no such tag
TagValue(record, name) ==
  LET key    == name \o <<"=">>
      starts == {i \in 1..Len(record) :
                   /\ StartsAt(record, i, key)
                   /\ (i = 1 \/ record[i - 1] \in TagStop)}
  IN  IF starts = {} THEN <<>>
      ELSE LET from == Min(starts) + Len(key)
               to   == Min({j \in from..(Len(record) + 1) :
                              j = Len(record) + 1 \/ record[j] \in TagStop})
           IN  SubSeq(record, from, to - 1)

\* C15: for a record containing 'v=DMARC1', policy is the value of the p tag
\* ('none' without one) and subdomainPolicy the value of the sp tag (absent
\* without one), whatever the order of the tags: the sp value is never taken
\* as the policy
C15_CheckDMARC ==
  [][(Settles("dmarc") /\ plan["dmarc"].k = "answer"
        /\ Len(SelectSeq(Flat(plan["dmarc"].records), IsDmarc)) > 0) =>
       LET record == SelectSeq(Flat(plan["dmarc"].records), IsDmarc)[1]
           p      == TagValue(record, <<"p">>)
           sp     == TagValue(record, <<"s","p">>)
           value  == task'["dmarc"].out.value
       IN  /\ Exists(value)
           /\ value.policy = (IF p # <<>> THEN p ELSE <<"n","o","n","e">>)
           /\ value.subdomainPolicy = (IF sp # <<>> THEN Str(sp) ELSE Null)]_vars

\* ageInDays of a WHOIS result is absent, null, or a non-negative integer
AgeIsNatural(result) ==
  LET age == Get(result, "ageInDays")
  IN  age.t = "num" => age.n >= 0

\* C16: in every WHOIS result that checkWhois returns or caches, and in the
\* aggregate the verdict is computed from, ageInDays is absent or a
\* non-negative integer, also when the creation date lies after the current
\* time
C16_AgeNeverNegative ==
  /\ (task["whois"].out.status = "fulfilled") => AgeIsNatural(task["whois"].out.value)
  /\ \A key \in DOMAIN whoisCache :
       whoisCache[key].t = "obj" => AgeIsNatural(whoisCache[key].data)
  /\ Reported => AgeIsNatural(Report.whois)

IsWhoisKey(key) == Len(key) >= 6 /\ SubSeq(key, 1, 6) = WhoisKey(<<>>)

\* checkWhois returns the error marker
LookupFails == Settles("whois") /\ "error" \in DOMAIN task'["whois"].out.value

\* C20: a failed WHOIS lookup is never cached: every entry under a whois key
\* is a {timestamp, data} pair whose data is the result read from a fetched
\* page, an entry is written only by a lookup whose page was read, a lookup
\* that returns the error marker leaves the cache as it was, and the next
\* lookup for the domain fetches unless the entry of the domain is fresh
C20_FailureNotCached ==
  [][/\ \A key \in DOMAIN whoisCache' :
          IsWhoisKey(key) =>
            /\ whoisCache'[key].t = "obj"
            /\ DOMAIN whoisCache'[key].data = {"creationDate", "ageInDays", "rawData"}
            /\ (MapGet(whoisCache, key) # whoisCache'[key]) =>
                  /\ whoisPhase = "text"
                  /\ plan["whois"].k = "text"
                  /\ key = WhoisKey(req.domain.s)
                  /\ whoisCache'[key].data = task'["whois"].out.value
     /\ LookupFails => whoisCache' = whoisCache
     /\ (ChecksBegin /\ ~Fresh(MapGet(whoisCache, WhoisKey(req'.domain.s)), now))
          => issued'.fetch = 1]_vars

\* a lookup failed while the cache held an older result of the domain, which
\* is still there
C20_Witness ==
  /\ whoisPhase = "done"
  /\ task["whois"].st = "settled"
  /\ "error" \in DOMAIN task["whois"].out.value
  /\ LET entry == MapGet(whoisCache, WhoisKey(req.domain.s))
     IN  /\ entry.t = "obj"
         /\ now - entry.timestamp >= CACHE_TTL
         /\ "error" \notin DOMAIN entry.data

(***************************************************************************)
(* Properties of the authenticated handler (SpecApi)                       *)
(***************************************************************************)
\* the requests that got HTTP 200 with results
ApiSuccesses == {i \in 1..MaxApiRequests : apiReq[i].status = 200 /\ apiReq[i].results}

\* the stored domain_checks of the user and the month (no row: none counted)
StoredChecks == IF supabase.usage.t = "num" THEN supabase.usage.n ELSE 0

\* C17: a free-tier user obtains at most one successful check in the month
\* under every interleaving of the user's concurrent requests, and after
\* every successful check the stored counter equals the number of successful
\* checks so far
C17_MonthlyLimit ==
  (supabase.tier = "free") =>
    /\ Cardinality(ApiSuccesses) <= 1
    /\ (ApiSuccesses # {}) => StoredChecks = Cardinality(ApiSuccesses)

(***************************************************************************)
(* Properties of concurrent checkWhois calls (SpecCalls)                   *)
(***************************************************************************)
\* data was read from the page of the domain
OwnPage(domain, data) ==
  /\ DOMAIN data = {"creationDate", "ageInDays", "rawData"}
  /\ data.ageInDays.t = "num"
  /\ data.ageInDays.n \in (IF domain = <<"a",".","c","o">> THEN {400, 401}
                            ELSE {29, 30})

\* call c of cs, a call for the domain of the key, computed the data of the
\* entry from the page it fetched, at the time of the entry, and returned it
WrittenBy(key, entry, cs, c) ==
  /\ WhoisKey(cs[c].domain) = key
  /\ cs[c].pc = "done"
  /\ cs[c].plan.k = "text"
  /\ entry.data = whoisResult(cs[c].plan.text, entry.timestamp)
  /\ cs[c].out = Fulfilled(entry.data)

\* what call c returns in this step: the error marker after a fetch of its
\* own, the result it computed from the page it fetched, or the fresh cached
\* result of its domain
ReturnsOwn(c) ==
  LET v == calls'[c].out.value
  IN  \/ /\ "error" \in DOMAIN v
         /\ calls[c].pc \in {"fetch", "text"}
      \/ /\ calls[c].pc = "text"
         /\ calls[c].plan.k = "text"
         /\ v = whoisResult(calls[c].plan.text, now)
         /\ OwnPage(calls[c].domain, v)
      \/ /\ calls[c].pc = "idle"
         /\ Fresh(MapGet(whoisCache, WhoisKey(calls'[c].domain)), now)
         /\ v = MapGet(whoisCache, WhoisKey(calls'[c].domain)).data
         /\ OwnPage(calls'[c].domain, v)

\* C18: under every interleaving of concurrent checkWhois calls, for the same
\* or for different domains, every entry under a whois key is a complete
\* {timestamp, data} pair written by one call for the domain of the key, and
\* every call returns a result of a fetch of its own or the complete cached
\* result of its own domain; the race costs a redundant fetch only
C18_CacheRace ==
  [][/\ \A key \in DOMAIN whoisCache' :
          IsWhoisKey(key) =>
            /\ DOMAIN whoisCache'[key] = {"t", "timestamp", "data"}
            /\ whoisCache'[key].t = "obj"
            /\ whoisCache'[key].timestamp <= now'
            /\ \E d \in GoodDomains : /\ key = WhoisKey(d.s)
                                      /\ OwnPage(d.s, whoisCache'[key].data)
            /\ \E c \in 1..MaxCalls : WrittenBy(key, whoisCache'[key], calls', c)
     /\ \A c \in 1..MaxCalls :
          (calls[c].pc # "done" /\ calls'[c].pc = "done") => ReturnsOwn(c)]_vars

\* both calls missed the cache for the same domain, both fetched the page and
\* both stored their result: the second fetch was redundant
C18_Witness ==
  /\ \A c \in 1..MaxCalls : /\ calls[c].pc = "done"
                             /\ calls[c].plan.k = "text"
                             /\ calls[c].domain = calls[1].domain
  /\ \E c \in 1..MaxCalls :
       WrittenBy(WhoisKey(calls[1].domain),
                 MapGet(whoisCache, WhoisKey(calls[1].domain)), calls, c)

(***************************************************************************)
(* Properties of the free-tier slot (SpecSlots)                            *)
(***************************************************************************)
\* the slot of a client in the Map
Slot(cache, ip) == MapGet(cache, FreeKey(ip))

\* the client was admitted less than an hour before t
SlotBlocks(cache, ip, t) ==
  TruthyNum(Slot(cache, ip)) /\ t - Slot(cache, ip).n < 3600

KeyLess(request) == ~TruthyStr(request.licenseKey)

\* a step of a request that arrives while the current one is suspended
ArrivesConcurrently ==
  /\ pc \in {"verify", "checks"}
  /\ <<now, pc, req, sent, task, plan, issued>>' = <<now, pc, req, sent, task, plan, issued>>

\* what the handler does with a request arriving now, whatever the handlers
\* of other requests are doing: without a license key it is refused while
\* the slot of its client blocks, and else admitted with the slot set, which
\* refuses the next one at once; with a license key it leaves the Map alone
EntryRespectsSlot(request) ==
  LET e == handlerEntry(request, whoisCache, now)
  IN  IF KeyLess(request)
      THEN IF SlotBlocks(whoisCache, request.ip, now)
           THEN /\ e.goto = "respond"
                /\ e.response.status = 429
                /\ e.cache = whoisCache
           ELSE /\ e.goto = "checks"
                /\ e.cache = MapSet(whoisCache, FreeKey(request.ip), Num(now))
                /\ handlerEntry(request, e.cache, now).goto = "respond"
                /\ handlerEntry(request, e.cache, now).response.status = 429
      ELSE /\ e.goto = "verify"
           /\ e.cache = whoisCache

\* C21: the free-tier slot of a client is taken when a request without a
\* license key is admitted, in the step of its arrival and before anything
\* was issued for it, and only if the client was not admitted within the
\* last hour, also when requests arrive while another is in progress; once
\* set the slot is never released, also not by the steps that end the
\* admitted request with 408 or 500, so the next request without a key from
\* the client within the hour gets 429; the steps of a request with a
\* license key leave every slot as it is
C21_SlotAtAdmission ==
  [][/\ \A request \in SlotWorld.requests : EntryRespectsSlot(request)
     /\ \A ip \in {request.ip : request \in SlotWorld.requests} :
          /\ (Slot(whoisCache', ip) # Slot(whoisCache, ip)) =>
                /\ ~SlotBlocks(whoisCache, ip, now)
                /\ Slot(whoisCache', ip) = Num(now)
                /\ now' = now
                /\ \/ ArrivesConcurrently
                   \/ /\ Arrives
                      /\ pc' = "checks"
                      /\ KeyLess(req')
                      /\ req'.ip = ip
                      /\ issued = NoNetwork
          /\ TruthyNum(Slot(whoisCache, ip)) =>
                /\ TruthyNum(Slot(whoisCache', ip))
                /\ Slot(whoisCache', ip).n >= Slot(whoisCache, ip).n
     /\ (Arrives /\ pc' = "checks" /\ KeyLess(req')) =>
          /\ ~SlotBlocks(whoisCache, req'.ip, now)
          /\ Slot(whoisCache', req'.ip) = Num(now)
     /\ (Arrives /\ KeyLess(req') /\ SlotBlocks(whoisCache, req'.ip, now)) =>
          /\ Len(sent') = 1
          /\ sent'[1].status = 429
          /\ issued' = NoNetwork
          /\ whoisCache' = whoisCache
     /\ (pc' # "idle" /\ TruthyStr(req'.licenseKey) /\ ~ArrivesConcurrently) =>
          \A ip \in {request.ip : request \in SlotWorld.requests} :
            Slot(whoisCache', ip) = Slot(whoisCache, ip)]_vars

\* the one admitted request ended with the 408 (no WHOIS result was stored),
\* the slot of the other client was taken by a request that arrived meanwhile,
\* and the next request of the client, within the hour, is refused
C21_Witness ==
  /\ pc = "done"
  /\ Len(sent) = 1
  /\ sent[1].status = 429
  /\ admitted = 1
  /\ KeyLess(req)
  /\ MapGet(whoisCache, WhoisKey(req.domain.s)) = Undefined
  /\ now - Slot(whoisCache, req.ip).n >= GLOBAL_TIMEOUT
  /\ \A ip \in {request.ip : request \in SlotWorld.requests} :
       TruthyNum(Slot(whoisCache, ip))

====
